---- MODULE Spec2Model ----
(***************************************************************************)
(* Cricket Tracker: the match service (addMatch, updateMatch, deleteMatch, *)
(* checkDuplicate, updatePlayerStats, getPlayerStats, getAllMatches,       *)
(* getMatch, getRecentMatches) over the two Firestore collections          *)
(* `matches` and `playerStats`, the add-match and edit-match handlers with *)
(* their form validation, and the Java class Match.                        *)
(*                                                                         *)
(* Every `await` on the store is one step of the model: the store serves   *)
(* the request (or rejects it) and the async function runs on to its next  *)
(* await.  A call and its first store request form one step, since the     *)
(* function does nothing observable before that request is served.         *)
(*                                                                         *)
(* Numbers: the oversBowled of a record is kept in tenths of an over (4.0  *)
(* is 40, 2.3 is 23); totalOversBowled is the double that the additions    *)
(* give; the four derived metrics, rounded by toFixed(2), are kept in      *)
(* hundredths (133.33 is 13333).  matchDate is a count of clock ticks,     *)
(* DayLength ticks to the calendar day.  serverTimestamp() is the reading  *)
(* of the store's clock `now` at the write; the updatedAt of the snapshot  *)
(* is written but never read and is not part of the snapshot here.         *)
(*                                                                         *)
(* The Java class Match of the MVC skeleton is the variable matchModel; it *)
(* shares nothing with the service.                                        *)
(***************************************************************************)
EXTENDS Integers, Sequences, FiniteSets, TLC

\* ------------------------------------------------------------------ bounds
\* how many documents the `matches` collection holds at most
MaxIds == 2

\* clock ticks to the calendar day (the granularity setHours(0,0,0,0) cuts to)
DayLength == 2

\* how many records updatePlayerStats is run over at most, called on its own
MaxRecords == 3

\* how far the clock of the store runs
MaxClock == 2

\* --------------------------------------------------------- program constants
USER_ID == "local-player"
\* a field the caller left out (undefined)
Absent == -1
\* excludeId = null, the default of checkDuplicate
NoId == 0

Ids == 1 .. MaxIds
\* ids a caller may name: those the store can hold and one it never holds
CallIds == 1 .. (MaxIds + 1)
Procs == {"c1", "c2"}
\* the callers of the one-at-a-time specification
SeqCallers == {"c1"}

\* --------------------------------------------------------------- inputs
\* the six performance figures of a submission; Absent where the caller gave none
BattingFigures ==
    [runsScored |-> 50, ballsFaced |-> 40, wicketsTaken |-> 0,
     oversBowled |-> 0, runsConceded |-> 0, catches |-> 1]
BowlingFigures ==
    [runsScored |-> Absent, ballsFaced |-> Absent, wicketsTaken |-> 3,
     oversBowled |-> 40, runsConceded |-> 20, catches |-> Absent]
\* matchData: matchDate is the day and the time of day the caller gives
Submission(day, tick, opponent, f) ==
    [matchDate |-> [day |-> day, tick |-> tick], opponent |-> opponent,
     runsScored |-> f.runsScored, ballsFaced |-> f.ballsFaced,
     wicketsTaken |-> f.wicketsTaken, oversBowled |-> f.oversBowled,
     runsConceded |-> f.runsConceded, catches |-> f.catches]
\* the submissions the callers make: two on the same day against the same
\* opponent with different figures, one on that day at another time against the
\* same opponent in another case, one on another day, one against another side
MatchDataInputs ==
    { Submission(1, 0, "India", BattingFigures),
      Submission(1, 0, "India", BowlingFigures),
      Submission(1, DayLength - 1, "india", BowlingFigures),
      Submission(2, 0, "India", BattingFigures),
      Submission(1, 0, "Pakistan", BowlingFigures) }
NoData == [none |-> TRUE]

\* the records updatePlayerStats is run over when it is called on its own: the
\* figures of a batting, a bowling and an all-round performance, and those of
\* a record that lacks the fields of its bowling and its catches
WicketFigures ==
    [runsScored |-> 0, ballsFaced |-> 0, wicketsTaken |-> 3,
     oversBowled |-> 40, runsConceded |-> 20, catches |-> 0]
AllRoundFigures ==
    [runsScored |-> 30, ballsFaced |-> 20, wicketsTaken |-> 1,
     oversBowled |-> 23, runsConceded |-> 15, catches |-> 2]
SlowFigures ==
    [runsScored |-> 23, ballsFaced |-> 160, wicketsTaken |-> Absent,
     oversBowled |-> 34, runsConceded |-> Absent, catches |-> Absent]
\* each on either of two days
RecordInputs ==
    << [day |-> 1, figures |-> BattingFigures], [day |-> 1, figures |-> WicketFigures],
       [day |-> 1, figures |-> AllRoundFigures], [day |-> 1, figures |-> SlowFigures],
       [day |-> 2, figures |-> BattingFigures], [day |-> 2, figures |-> WicketFigures],
       [day |-> 2, figures |-> AllRoundFigures], [day |-> 2, figures |-> SlowFigures] >>
\* the opponents of the stored records, one to the document, so that matches
\* of one day are no duplicates of each other
OpponentNames == <<"India", "Pakistan", "Australia", "England">>
\* the document of id with the date and the figures of input r
StoredRecord(id, r) ==
    [userId |-> USER_ID, matchDate |-> r.day * DayLength,
     opponent |-> OpponentNames[((id - 1) % Len(OpponentNames)) + 1],
     runsScored |-> r.figures.runsScored, ballsFaced |-> r.figures.ballsFaced,
     wicketsTaken |-> r.figures.wicketsTaken, oversBowled |-> r.figures.oversBowled,
     runsConceded |-> r.figures.runsConceded, catches |-> r.figures.catches,
     createdAt |-> 0, updatedAt |-> 0]

VARIABLES
    matches,      \* collection `matches`: document id -> document
    playerStats,  \* collection `playerStats`: document id -> document
    pc,           \* per caller: the await its call is at
    op,           \* per caller: the service function of its current or last call
    matchId,      \* per caller: the matchId argument / docRef.id of addMatch
    matchData,    \* per caller: the matchData argument, until its last use
    statsDoc,     \* per caller: statsDoc built by updatePlayerStats, not yet set
    result,       \* per caller: how its last call resolved or rejected
    now,          \* the clock of the store, which serverTimestamp() reads
    matchModel    \* the fields of the Java object `match`

vars == <<matches, playerStats, pc, op, matchId, matchData, statsDoc, result,
          now, matchModel>>

\* ------------------------------------------------------------ conversions
\* new Date(matchData.matchDate).getTime()
NewDate(d) == d.day * DayLength + d.tick
\* date.setHours(0, 0, 0, 0); date.toDateString(): the calendar day of a time
DateString(t) == t \div DayLength
\* String.prototype.toLowerCase on the opponent names in use
ToLowerCase(s) ==
    CASE s = "India" -> "india"
      [] s = "india" -> "india"
      [] s = "Pakistan" -> "pakistan"
      [] s = "Australia" -> "australia"
      [] s = "England" -> "england"
      [] OTHER -> s
\* x || 0
OrZero(x) == IF x = Absent \/ x = 0 THEN 0 ELSE x

\* ---------------------------------------------------------------- results
Resolved == [kind |-> "ok"]
ResolvedId(id) == [kind |-> "ok", id |-> id]
ResolvedStats(doc) == [kind |-> "ok", stats |-> doc]
Rejected(msg) == [kind |-> "error", message |-> msg]
DuplicateMessage(opponent) ==
    <<"A match against ", opponent, " on this date already exists">>
NotFoundMessage == <<"Match not found">>
\* the error object a failed Firestore request rejects with
StoreErrorMessage == <<"FirebaseError">>
NoResult == [kind |-> "none"]
\* the array getAllMatches and getRecentMatches return
ResolvedList(list) == [kind |-> "ok", list |-> list]
\* what getMatch returns: the match, or null
ResolvedMatch(m) == [kind |-> "ok", match |-> m]
JsNull == [kind |-> "null"]

\* ----------------------------------------------------------- store queries
\* the order in which a query with no orderBy hands back the documents with
\* the given ids: ascending by document id.  The ids are those addDoc
\* generated, so the records come in any order, but in the same order at
\* every read of an unchanged collection
Orders(S) ==
    { o \in [1 .. Cardinality(S) -> S] :
        \A i, j \in 1 .. Cardinality(S) : i < j => o[i] < o[j] }
\* query(collection(db, 'matches'), where('userId', '==', USER_ID))
UserDocIds(coll) == { id \in DOMAIN coll : coll[id].userId = USER_ID }

\* ---------------------------------------------------------- checkDuplicate
\* (mutant) the loop never skips the match being updated
IsExcludedNever(docId, excludeId) == FALSE
\* excludeId && docSnap.id === excludeId
IsExcluded(docId, excludeId) == excludeId # NoId /\ docId = excludeId
\* data.opponent.toLowerCase() !== opponent.toLowerCase()
OpponentDiffers(stored, opponent) == ToLowerCase(stored) # ToLowerCase(opponent)
\* inputDateStr === matchDateStr, both cut to the day
SameDateString(inputDateStr, storedDate) == inputDateStr = DateString(storedDate)

\* the for loop over querySnapshot.docs, from position i on
RECURSIVE ScanDocs(_, _, _, _, _, _)
ScanDocs(coll, docs, i, inputDateStr, opponent, excludeId) ==
    IF i > Len(docs) THEN FALSE
    ELSE IF IsExcluded(docs[i], excludeId)
         THEN ScanDocs(coll, docs, i + 1, inputDateStr, opponent, excludeId)
    ELSE IF OpponentDiffers(coll[docs[i]].opponent, opponent)
         THEN ScanDocs(coll, docs, i + 1, inputDateStr, opponent, excludeId)
    ELSE IF SameDateString(inputDateStr, coll[docs[i]].matchDate)
         THEN TRUE
    ELSE ScanDocs(coll, docs, i + 1, inputDateStr, opponent, excludeId)

\* the try block of checkDuplicate, given the documents the query returned
CheckDuplicateTry(coll, docs, date, opponent, excludeId) ==
    ScanDocs(coll, docs, 1, DateString(NewDate(date)), opponent, excludeId)
\* the catch block of checkDuplicate: the error is logged and false returned
CheckDuplicateCatch == FALSE

\* ------------------------------------------------------------ getAllMatches
\* { id: doc.id, ...data, matchDate: data.matchDate.toDate() }
MatchOf(coll, id) ==
    [id |-> id, userId |-> coll[id].userId, matchDate |-> coll[id].matchDate,
     opponent |-> coll[id].opponent, runsScored |-> coll[id].runsScored,
     ballsFaced |-> coll[id].ballsFaced, wicketsTaken |-> coll[id].wicketsTaken,
     oversBowled |-> coll[id].oversBowled, runsConceded |-> coll[id].runsConceded,
     catches |-> coll[id].catches, createdAt |-> coll[id].createdAt,
     updatedAt |-> coll[id].updatedAt]
\* (mutant) the comparator a.matchDate - b.matchDate, oldest first
StaysBeforeOldestFirst(a, b) == a.matchDate - b.matchDate <= 0
\* the comparator (a, b) => b.matchDate - a.matchDate puts a before b
\* unless it is positive
StaysBefore(a, b) == b.matchDate - a.matchDate <= 0
\* one element put into a newest-first list behind its equals (the sort is stable)
RECURSIVE InsertMatch(_, _)
InsertMatch(list, m) ==
    IF list = << >> THEN <<m>>
    ELSE IF StaysBefore(list[1], m) THEN <<list[1]>> \o InsertMatch(Tail(list), m)
    ELSE <<m>> \o list
RECURSIVE SortMatches(_)
SortMatches(list) ==
    IF list = << >> THEN << >>
    ELSE InsertMatch(SortMatches(SubSeq(list, 1, Len(list) - 1)), list[Len(list)])
\* getAllMatches, given the order the query returned the documents in
GetAllMatches(coll, docs) ==
    SortMatches([i \in 1 .. Len(docs) |-> MatchOf(coll, docs[i])])

\* matches.slice(0, limit), limit >= 0
Slice(list, limit) ==
    SubSeq(list, 1, IF limit < Len(list) THEN limit ELSE Len(list))
\* limit = 5 of getRecentMatches
DefaultLimit == 5

\* ------------------------------------------------ JavaScript Number arithmetic
\* Every Number is an IEEE-754 double.  The counts and the run totals are
\* integers far below 2^53, which doubles hold exactly; they are kept as
\* integers.  oversBowled is a decimal with one digit after the point: the
\* record keeps the tenths t and its Number is the double nearest to t/10.
\* A sum of such Numbers and a quotient are general doubles: a finite double
\* x >= 0 is [m, e] with x = m * 2^e and m odd (m = 0, e = 0 for zero), m being
\* a natural number given by its digits in base LimbBase, lowest first, with
\* no leading zero digit.
Precision == 53
LimbBits == 14
LimbBase == 2^LimbBits

RECURSIVE BigOfInt(_)
BigOfInt(n) == IF n = 0 THEN << >> ELSE <<n % LimbBase>> \o BigOfInt(n \div LimbBase)
RECURSIVE IntOfBig(_)
IntOfBig(a) == IF a = << >> THEN 0 ELSE a[1] + LimbBase * IntOfBig(Tail(a))
\* without its leading zero digits
RECURSIVE BigTrim(_)
BigTrim(a) ==
    IF a = << >> THEN a
    ELSE IF a[Len(a)] = 0 THEN BigTrim(SubSeq(a, 1, Len(a) - 1)) ELSE a
RECURSIVE BigAddCarry(_, _, _)
BigAddCarry(a, b, carry) ==
    IF a = << >> /\ b = << >> THEN BigOfInt(carry)
    ELSE LET s == (IF a = << >> THEN 0 ELSE a[1]) + (IF b = << >> THEN 0 ELSE b[1]) + carry
         IN <<s % LimbBase>> \o BigAddCarry(IF a = << >> THEN a ELSE Tail(a),
                                            IF b = << >> THEN b ELSE Tail(b),
                                            s \div LimbBase)
BigAdd(a, b) == BigAddCarry(a, b, 0)
\* a - b - borrow for a >= b + borrow
RECURSIVE BigSubBorrow(_, _, _)
BigSubBorrow(a, b, borrow) ==
    IF a = << >> THEN << >>
    ELSE LET s == a[1] - (IF b = << >> THEN 0 ELSE b[1]) - borrow
         IN <<IF s < 0 THEN s + LimbBase ELSE s>>
               \o BigSubBorrow(Tail(a), IF b = << >> THEN b ELSE Tail(b),
                               IF s < 0 THEN 1 ELSE 0)
BigSub(a, b) == BigTrim(BigSubBorrow(a, b, 0))
\* a < b, for a and b of the same length, looking at digits i and below
RECURSIVE BigLessFrom(_, _, _)
BigLessFrom(a, b, i) ==
    IF i = 0 THEN FALSE
    ELSE IF a[i] # b[i] THEN a[i] < b[i] ELSE BigLessFrom(a, b, i - 1)
BigLess(a, b) ==
    IF Len(a) # Len(b) THEN Len(a) < Len(b) ELSE BigLessFrom(a, b, Len(a))
\* a * k + carry for 0 < k < 2^16
RECURSIVE BigTimesCarry(_, _, _)
BigTimesCarry(a, k, carry) ==
    IF a = << >> THEN BigOfInt(carry)
    ELSE LET s == a[1] * k + carry
         IN <<s % LimbBase>> \o BigTimesCarry(Tail(a), k, s \div LimbBase)
BigTimes(a, k) == IF k = 0 THEN << >> ELSE BigTimesCarry(a, k, 0)
\* quotient (digits not trimmed) and remainder of a by d, 0 < d < 2^16
RECURSIVE BigDivSmall(_, _)
BigDivSmall(a, d) ==
    IF a = << >> THEN [q |-> << >>, r |-> 0]
    ELSE LET hi == BigDivSmall(Tail(a), d)
             cur == hi.r * LimbBase + a[1]
         IN [q |-> <<cur \div d>> \o hi.q, r |-> cur % d]
\* the largest digit q with q * d <= cur, tried from est downwards
RECURSIVE QuotientDigitFrom(_, _, _)
QuotientDigitFrom(cur, d, est) ==
    IF BigLess(cur, BigTimes(d, est)) THEN QuotientDigitFrom(cur, d, est - 1) ELSE est
QuotientDigit(cur, d) ==
    IF BigLess(cur, d) THEN 0
    ELSE LET n == Len(d)
             top == (IF Len(cur) > n THEN cur[n + 1] * LimbBase ELSE 0) + cur[n]
             est == top \div d[n]
         IN QuotientDigitFrom(cur, d, IF est < LimbBase THEN est ELSE LimbBase - 1)
\* quotient (digits not trimmed) and remainder of a by d, d # 0: long division
RECURSIVE BigDivMod(_, _)
BigDivMod(a, d) ==
    IF a = << >> THEN [q |-> << >>, r |-> << >>]
    ELSE LET hi == BigDivMod(Tail(a), d)
             cur == BigTrim(<<a[1]>> \o hi.r)
             qd == QuotientDigit(cur, d)
         IN [q |-> <<qd>> \o hi.q, r |-> BigSub(cur, BigTimes(d, qd))]

RECURSIVE BitLength(_)
BitLength(n) == IF n = 0 THEN 0 ELSE 1 + BitLength(n \div 2)
BigBitLength(a) ==
    IF a = << >> THEN 0 ELSE (Len(a) - 1) * LimbBits + BitLength(a[Len(a)])
RECURSIVE TrailingZeros(_)
TrailingZeros(n) == IF n % 2 = 1 THEN 0 ELSE 1 + TrailingZeros(n \div 2)
RECURSIVE BigTrailingZeros(_)
BigTrailingZeros(a) ==
    IF a[1] = 0 THEN LimbBits + BigTrailingZeros(Tail(a)) ELSE TrailingZeros(a[1])
\* a * 2^k
BigShiftLeft(a, k) ==
    IF a = << >> THEN a
    ELSE [i \in 1 .. (k \div LimbBits) |-> 0] \o BigTimes(a, 2^(k % LimbBits))
\* a \div 2^k
BigShiftRight(a, k) ==
    IF k \div LimbBits >= Len(a) THEN << >>
    ELSE BigTrim(BigDivSmall(SubSeq(a, k \div LimbBits + 1, Len(a)),
                             2^(k % LimbBits)).q)
\* a % 2^k
BigLowBits(a, k) ==
    IF k \div LimbBits >= Len(a) THEN a
    ELSE BigTrim(SubSeq(a, 1, k \div LimbBits)
                   \o <<a[k \div LimbBits + 1] % 2^(k % LimbBits)>>)

DoubleZero == [m |-> << >>, e |-> 0]
\* 0/0 and x/0, which the guards of updatePlayerStats keep from happening
DoubleNaN == [nan |-> TRUE]
DoubleInfinity == [infinity |-> TRUE]
IsFinite(x) == "m" \in DOMAIN x
\* the double n * 2^e for n of at most Precision bits, with its odd m
DoubleOf(n, e) ==
    IF n = << >> THEN DoubleZero
    ELSE [m |-> BigShiftRight(n, BigTrailingZeros(n)), e |-> e + BigTrailingZeros(n)]
\* round-to-nearest, ties-to-even: the double nearest to (n + f) * 2^e, where
\* 0 < f < 1 if inexact and f = 0 if not; n is longer than Precision if inexact
RoundToNearest(n, e, inexact) ==
    IF BigBitLength(n) <= Precision THEN DoubleOf(n, e)
    ELSE LET cut == BigBitLength(n) - Precision
             kept == BigShiftRight(n, cut)
             rest == BigLowBits(n, cut)
             half == BigShiftLeft(<<1>>, cut - 1)
             up == \/ BigLess(half, rest)
                   \/ rest = half /\ (inexact \/ kept[1] % 2 = 1)
         IN DoubleOf(IF up THEN BigAdd(kept, <<1>>) ELSE kept, e + cut)
\* n / d for integers 0 <= n, d < 2^16
DoubleOfRatio(n, d) ==
    IF d = 0 THEN (IF n = 0 THEN DoubleNaN ELSE DoubleInfinity)
    ELSE LET qr == BigDivSmall(BigShiftLeft(BigOfInt(n), Precision + 19), d)
         IN RoundToNearest(BigTrim(qr.q), 0 - (Precision + 19), qr.r # 0)
\* x + y
DoubleAdd(x, y) ==
    LET low == IF x.e < y.e THEN x.e ELSE y.e
    IN RoundToNearest(BigAdd(BigShiftLeft(x.m, x.e - low), BigShiftLeft(y.m, y.e - low)),
                      low, FALSE)
\* x * k for an integer 0 < k < 2^16
DoubleTimes(x, k) == RoundToNearest(BigTimes(x.m, k), x.e, FALSE)
\* n / y for an integer 0 <= n < 2^16 and a double y
DoubleDivide(n, y) ==
    IF y.m = << >> THEN (IF n = 0 THEN DoubleNaN ELSE DoubleInfinity)
    ELSE LET norm == LimbBits - BitLength(y.m[Len(y.m)])
             scale == BigBitLength(y.m) + Precision + 2
             qr == BigDivMod(BigShiftLeft(BigOfInt(n), scale + norm),
                             BigShiftLeft(y.m, norm))
         IN RoundToNearest(BigTrim(qr.q), 0 - scale - y.e, qr.r # << >>)
\* Number.prototype.toFixed(digits) of x >= 0 without its decimal point: the
\* integer n for which n / 10^digits - x is as close to zero as possible, the
\* larger n if there are two
ToFixed(x, digits) ==
    IF x.e >= 0 THEN IntOfBig(x.m) * 2^x.e * 10^digits
    ELSE IntOfBig(BigShiftRight(BigAdd(BigTimes(x.m, 2 * 10^digits),
                                       BigShiftLeft(<<1>>, 0 - x.e)),
                                1 - x.e))

\* -------------------------------------------------------- updatePlayerStats
\* the Number of an oversBowled field given in tenths
NumberOfTenths(t) == DoubleOfRatio(t, 10)
ZeroTotals ==
    [totalRuns |-> 0, totalBallsFaced |-> 0, totalWickets |-> 0,
     totalOversBowled |-> DoubleZero, totalRunsConceded |-> 0, totalCatches |-> 0,
     matchesWithRuns |-> 0]
\* (mutant) oversBowled is turned into true overs, six balls to the over
AddMatchToTotalsInTrueOvers(t, match) ==
    [totalRuns |-> t.totalRuns + OrZero(match.runsScored),
     totalBallsFaced |-> t.totalBallsFaced + OrZero(match.ballsFaced),
     totalWickets |-> t.totalWickets + OrZero(match.wicketsTaken),
     totalOversBowled |->
         DoubleAdd(t.totalOversBowled,
                   DoubleOfRatio(6 * (OrZero(match.oversBowled) \div 10)
                                   + (OrZero(match.oversBowled) % 10), 6)),
     totalRunsConceded |-> t.totalRunsConceded + OrZero(match.runsConceded),
     totalCatches |-> t.totalCatches + OrZero(match.catches),
     matchesWithRuns |-> t.matchesWithRuns + (IF match.runsScored > 0 THEN 1 ELSE 0)]
\* (mutant) every match counts for the batting average
AddMatchToTotalsCountingAll(t, match) ==
    [totalRuns |-> t.totalRuns + OrZero(match.runsScored),
     totalBallsFaced |-> t.totalBallsFaced + OrZero(match.ballsFaced),
     totalWickets |-> t.totalWickets + OrZero(match.wicketsTaken),
     totalOversBowled |->
         DoubleAdd(t.totalOversBowled, NumberOfTenths(OrZero(match.oversBowled))),
     totalRunsConceded |-> t.totalRunsConceded + OrZero(match.runsConceded),
     totalCatches |-> t.totalCatches + OrZero(match.catches),
     matchesWithRuns |-> t.matchesWithRuns + 1]
\* one turn of matches.forEach
AddMatchToTotals(t, match) ==
    [totalRuns |-> t.totalRuns + OrZero(match.runsScored),
     totalBallsFaced |-> t.totalBallsFaced + OrZero(match.ballsFaced),
     totalWickets |-> t.totalWickets + OrZero(match.wicketsTaken),
     totalOversBowled |->
         DoubleAdd(t.totalOversBowled, NumberOfTenths(OrZero(match.oversBowled))),
     totalRunsConceded |-> t.totalRunsConceded + OrZero(match.runsConceded),
     totalCatches |-> t.totalCatches + OrZero(match.catches),
     matchesWithRuns |-> t.matchesWithRuns + (IF match.runsScored > 0 THEN 1 ELSE 0)]
RECURSIVE Totals(_, _)
Totals(list, n) ==
    IF n = 0 THEN ZeroTotals ELSE AddMatchToTotals(Totals(list, n - 1), list[n])
\* matchesWithRuns > 0 ? totalRuns / matchesWithRuns : 0
BattingAverage(t) ==
    IF t.matchesWithRuns > 0 THEN DoubleOfRatio(t.totalRuns, t.matchesWithRuns)
    ELSE DoubleZero
\* (mutant) runs to the ball, not to the hundred balls
StrikeRatePerBall(t) ==
    IF t.totalBallsFaced > 0 THEN DoubleOfRatio(t.totalRuns, t.totalBallsFaced)
    ELSE DoubleZero
\* totalBallsFaced > 0 ? (totalRuns / totalBallsFaced) * 100 : 0
StrikeRate(t) ==
    IF t.totalBallsFaced > 0
    THEN DoubleTimes(DoubleOfRatio(t.totalRuns, t.totalBallsFaced), 100)
    ELSE DoubleZero
\* (mutant) the quotient without its guard
BowlingAverageUnguarded(t) == DoubleOfRatio(t.totalRunsConceded, t.totalWickets)
\* totalWickets > 0 ? totalRunsConceded / totalWickets : 0
BowlingAverage(t) ==
    IF t.totalWickets > 0 THEN DoubleOfRatio(t.totalRunsConceded, t.totalWickets)
    ELSE DoubleZero
\* totalOversBowled > 0 ? totalRunsConceded / totalOversBowled : 0
EconomyRate(t) ==
    IF t.totalOversBowled # DoubleZero
    THEN DoubleDivide(t.totalRunsConceded, t.totalOversBowled)
    ELSE DoubleZero
\* a derived metric as stored: its hundredths h stand for the double nearest
\* to h/100; NaN and Infinity, which are no hundredths, are coded below zero
NaN == Absent - 1
Infinity == Absent - 2
\* parseFloat(x.toFixed(2))
ToFixed2(x) ==
    IF IsFinite(x) THEN ToFixed(x, 2)
    ELSE IF x = DoubleNaN THEN NaN ELSE Infinity
\* statsDoc, as updatePlayerStats builds it from the list getAllMatches returned
BuildStatsDoc(list) ==
    IF Len(list) = 0
    THEN [userId |-> USER_ID, totalMatches |-> 0, totalRuns |-> 0,
          totalBallsFaced |-> 0, totalWickets |-> 0, totalOversBowled |-> DoubleZero,
          totalRunsConceded |-> 0, totalCatches |-> 0, battingAverage |-> 0,
          strikeRate |-> 0, bowlingAverage |-> 0, economyRate |-> 0]
    ELSE LET t == Totals(list, Len(list)) IN
         [userId |-> USER_ID, totalMatches |-> Len(list), totalRuns |-> t.totalRuns,
          totalBallsFaced |-> t.totalBallsFaced, totalWickets |-> t.totalWickets,
          totalOversBowled |-> t.totalOversBowled,
          totalRunsConceded |-> t.totalRunsConceded, totalCatches |-> t.totalCatches,
          battingAverage |-> ToFixed2(BattingAverage(t)),
          strikeRate |-> ToFixed2(StrikeRate(t)),
          bowlingAverage |-> ToFixed2(BowlingAverage(t)),
          economyRate |-> ToFixed2(EconomyRate(t))]

\* ------------------------------------------------------- the Java class Match
\* a field of reference type that was given no value
Null == [null |-> TRUE]
MatchFields ==
    {"id", "matchDate", "opponent", "runsScored", "ballsFaced", "wicketsTaken",
     "oversBowled", "runsConceded", "catches"}
\* public Match() { }: every field keeps its default
NewMatch == [f \in MatchFields |-> Null]

\* a value of reference type that is not null: a String, a LocalDate (the
\* number of its day), an Integer, or a Double (in tenths)
ValueOf(x) == [value |-> x]
\* nothing of the service is touched by the Java object
ServiceUnchanged ==
    UNCHANGED <<matches, playerStats, pc, op, matchId, matchData, statsDoc, result, now>>
\* match = new Match()
Match_New ==
    /\ matchModel' = NewMatch
    /\ ServiceUnchanged
\* match = new Match(id, matchDate, opponent, runsScored, ballsFaced,
\* wicketsTaken, oversBowled, runsConceded, catches), a being the arguments
Match_NewOf(a) ==
    /\ matchModel' =
          [id |-> a[1], matchDate |-> a[2], opponent |-> a[3], runsScored |-> a[4],
           ballsFaced |-> a[5], wicketsTaken |-> a[6], oversBowled |-> a[7],
           runsConceded |-> a[8], catches |-> a[9]]
    /\ ServiceUnchanged
GetId(m) == m.id
GetMatchDate(m) == m.matchDate
GetOpponent(m) == m.opponent
GetRunsScored(m) == m.runsScored
GetBallsFaced(m) == m.ballsFaced
GetWicketsTaken(m) == m.wicketsTaken
GetOversBowled(m) == m.oversBowled
GetRunsConceded(m) == m.runsConceded
GetCatches(m) == m.catches
\* (mutant) setBallsFaced assigns this.runsScored
Match_SetBallsFacedIntoRuns(ballsFaced) ==
    /\ matchModel' = [matchModel EXCEPT !.runsScored = ballsFaced]
    /\ ServiceUnchanged
Match_SetId(id) ==
    /\ matchModel' = [matchModel EXCEPT !.id = id]
    /\ ServiceUnchanged
Match_SetMatchDate(matchDate) ==
    /\ matchModel' = [matchModel EXCEPT !.matchDate = matchDate]
    /\ ServiceUnchanged
Match_SetOpponent(opponent) ==
    /\ matchModel' = [matchModel EXCEPT !.opponent = opponent]
    /\ ServiceUnchanged
Match_SetRunsScored(runsScored) ==
    /\ matchModel' = [matchModel EXCEPT !.runsScored = runsScored]
    /\ ServiceUnchanged
Match_SetBallsFaced(ballsFaced) ==
    /\ matchModel' = [matchModel EXCEPT !.ballsFaced = ballsFaced]
    /\ ServiceUnchanged
Match_SetWicketsTaken(wicketsTaken) ==
    /\ matchModel' = [matchModel EXCEPT !.wicketsTaken = wicketsTaken]
    /\ ServiceUnchanged
Match_SetOversBowled(oversBowled) ==
    /\ matchModel' = [matchModel EXCEPT !.oversBowled = oversBowled]
    /\ ServiceUnchanged
Match_SetRunsConceded(runsConceded) ==
    /\ matchModel' = [matchModel EXCEPT !.runsConceded = runsConceded]
    /\ ServiceUnchanged
Match_SetCatches(catches) ==
    /\ matchModel' = [matchModel EXCEPT !.catches = catches]
    /\ ServiceUnchanged

Init ==
    /\ matches = << >>
    /\ playerStats = << >>
    /\ pc = [p \in Procs |-> "idle"]
    /\ op = [p \in Procs |-> "none"]
    /\ matchId = [p \in Procs |-> NoId]
    /\ matchData = [p \in Procs |-> NoData]
    /\ statsDoc = [p \in Procs |-> NoData]
    /\ result = [p \in Procs |-> NoResult]
    /\ now = 0
    /\ matchModel = NewMatch


\* ------------------------------------------------------- documents written
\* (mutant) matchDoc takes the timestamps the caller's object carries
MatchDocOfCallerStamps(data) ==
    [userId |-> USER_ID, matchDate |-> NewDate(data.matchDate),
     opponent |-> data.opponent, runsScored |-> OrZero(data.runsScored),
     ballsFaced |-> OrZero(data.ballsFaced),
     wicketsTaken |-> OrZero(data.wicketsTaken),
     oversBowled |-> OrZero(data.oversBowled),
     runsConceded |-> OrZero(data.runsConceded), catches |-> OrZero(data.catches),
     createdAt |-> IF "createdAt" \in DOMAIN data THEN data.createdAt ELSE now,
     updatedAt |-> IF "updatedAt" \in DOMAIN data THEN data.updatedAt ELSE now]
\* matchDoc of addMatch; Timestamp.fromDate keeps the time of the Date
MatchDoc(data) ==
    [userId |-> USER_ID, matchDate |-> NewDate(data.matchDate),
     opponent |-> data.opponent, runsScored |-> OrZero(data.runsScored),
     ballsFaced |-> OrZero(data.ballsFaced),
     wicketsTaken |-> OrZero(data.wicketsTaken),
     oversBowled |-> OrZero(data.oversBowled),
     runsConceded |-> OrZero(data.runsConceded), catches |-> OrZero(data.catches),
     createdAt |-> now, updatedAt |-> now]
\* (mutant) updateData leaves out the figures the caller gave none of
UpdateDataOfGivenFields(data) ==
    [f \in {"matchDate", "opponent", "updatedAt"}
           \cup { g \in {"runsScored", "ballsFaced", "wicketsTaken", "oversBowled",
                          "runsConceded", "catches"} : data[g] # Absent } |->
        CASE f = "matchDate" -> NewDate(data.matchDate)
          [] f = "updatedAt" -> now
          [] OTHER -> data[f]]
\* updateData of updateMatch
UpdateData(data) ==
    [matchDate |-> NewDate(data.matchDate), opponent |-> data.opponent,
     runsScored |-> OrZero(data.runsScored), ballsFaced |-> OrZero(data.ballsFaced),
     wicketsTaken |-> OrZero(data.wicketsTaken),
     oversBowled |-> OrZero(data.oversBowled),
     runsConceded |-> OrZero(data.runsConceded), catches |-> OrZero(data.catches),
     updatedAt |-> now]
\* updateDoc: the fields given replace the stored ones, the others stay
MergeDoc(doc, fields) ==
    [f \in DOMAIN doc |-> IF f \in DOMAIN fields THEN fields[f] ELSE doc[f]]
\* dateChanged || opponentChanged of updateMatch
DateChanged(data, existingMatch) == NewDate(data.matchDate) # existingMatch.matchDate
OpponentChanged(data, existingMatch) == data.opponent # existingMatch.opponent
KeyChanged(data, existingMatch) ==
    DateChanged(data, existingMatch) \/ OpponentChanged(data, existingMatch)

\* ------------------------------------------------------------ call frames
\* what no step of the service changes: the store's clock goes on by itself,
\* and the Java object is no part of the service
Elsewhere == UNCHANGED <<now, matchModel>>
CanCall(p) == pc[p] \in {"idle", "done"}
\* a call has started and is past its first request
Proceed(p, o, id, data, at) ==
    /\ pc' = [pc EXCEPT ![p] = at]
    /\ op' = [op EXCEPT ![p] = o]
    /\ matchId' = [matchId EXCEPT ![p] = id]
    /\ matchData' = [matchData EXCEPT ![p] = data]
    /\ statsDoc' = [statsDoc EXCEPT ![p] = NoData]
    /\ result' = [result EXCEPT ![p] = NoResult]
    /\ Elsewhere
\* a call has settled on its first request; its matchData is dead
Settle(p, o, id, r) ==
    /\ pc' = [pc EXCEPT ![p] = "done"]
    /\ op' = [op EXCEPT ![p] = o]
    /\ matchId' = [matchId EXCEPT ![p] = id]
    /\ matchData' = [matchData EXCEPT ![p] = NoData]
    /\ statsDoc' = [statsDoc EXCEPT ![p] = NoData]
    /\ result' = [result EXCEPT ![p] = r]
    /\ Elsewhere
\* a call moves on to a later await
Goto(p, at) ==
    /\ pc' = [pc EXCEPT ![p] = at]
    /\ UNCHANGED <<op, result>>
    /\ Elsewhere
\* a call settles at a later await: the catch blocks log and rethrow
Return(p, r) ==
    /\ pc' = [pc EXCEPT ![p] = "done"]
    /\ result' = [result EXCEPT ![p] = r]
    /\ matchData' = [matchData EXCEPT ![p] = NoData]
    /\ statsDoc' = [statsDoc EXCEPT ![p] = NoData]
    /\ UNCHANGED <<op, matchId>>
    /\ Elsewhere

\* ------------------------------------------------------------------ addMatch
\* addMatch is called and the query of its checkDuplicate is answered
AddMatch_CheckDuplicate(p, data, docs) ==
    /\ CanCall(p)
    /\ Cardinality(DOMAIN matches) < MaxIds
    /\ IF CheckDuplicateTry(matches, docs, data.matchDate, data.opponent, NoId)
       THEN Settle(p, "addMatch", NoId,
                   Rejected(DuplicateMessage(data.opponent)))
       ELSE Proceed(p, "addMatch", NoId, data, "addDoc")
    /\ UNCHANGED <<matches, playerStats>>
\* addMatch is called and the query of its checkDuplicate is rejected
AddMatch_CheckDuplicateFails(p, data) ==
    /\ CanCall(p)
    /\ Cardinality(DOMAIN matches) < MaxIds
    /\ IF CheckDuplicateCatch
       THEN Settle(p, "addMatch", NoId,
                   Rejected(DuplicateMessage(data.opponent)))
       ELSE Proceed(p, "addMatch", NoId, data, "addDoc")
    /\ UNCHANGED <<matches, playerStats>>
\* (mutant) addMatch returns docRef.id without awaiting updatePlayerStats
AddMatch_AddDocResolvesEarly(p, id) ==
    /\ pc[p] = "addDoc"
    /\ id \notin DOMAIN matches
    /\ matches' = (id :> MatchDoc(matchData[p])) @@ matches
    /\ pc' = [pc EXCEPT ![p] = "done"]
    /\ result' = [result EXCEPT ![p] = ResolvedId(id)]
    /\ matchId' = [matchId EXCEPT ![p] = id]
    /\ matchData' = [matchData EXCEPT ![p] = NoData]
    /\ UNCHANGED <<playerStats, statsDoc, op>>
    /\ Elsewhere
\* (mutant) the document is set under an id that may be taken
AddMatch_AddDocUnderAnyId(p, id) ==
    /\ pc[p] = "addDoc"
    /\ matches' = [i \in DOMAIN matches \cup {id} |->
                      IF i = id THEN MatchDoc(matchData[p]) ELSE matches[i]]
    /\ matchId' = [matchId EXCEPT ![p] = id]
    /\ matchData' = [matchData EXCEPT ![p] = NoData]
    /\ Goto(p, "getAllMatches")
    /\ UNCHANGED <<playerStats, statsDoc>>
\* addDoc(collection(db, MATCHES_COLLECTION), matchDoc) under a generated id
AddMatch_AddDoc(p, id) ==
    /\ pc[p] = "addDoc"
    /\ id \notin DOMAIN matches
    /\ matches' = (id :> MatchDoc(matchData[p])) @@ matches
    /\ matchId' = [matchId EXCEPT ![p] = id]
    /\ matchData' = [matchData EXCEPT ![p] = NoData]
    /\ Goto(p, "getAllMatches")
    /\ UNCHANGED <<playerStats, statsDoc>>
AddMatch_AddDocFails(p) ==
    /\ pc[p] = "addDoc"
    /\ Return(p, Rejected(StoreErrorMessage))
    /\ UNCHANGED <<matches, playerStats>>

\* --------------------------------------------------------- updatePlayerStats
\* updatePlayerStats is called on its own and its getAllMatches answered
UpdatePlayerStats_Call(p, docs) ==
    /\ CanCall(p)
    /\ pc' = [pc EXCEPT ![p] = "setDoc"]
    /\ op' = [op EXCEPT ![p] = "updatePlayerStats"]
    /\ matchId' = [matchId EXCEPT ![p] = NoId]
    /\ matchData' = [matchData EXCEPT ![p] = NoData]
    /\ statsDoc' = [statsDoc EXCEPT ![p] = BuildStatsDoc(GetAllMatches(matches, docs))]
    /\ result' = [result EXCEPT ![p] = NoResult]
    /\ Elsewhere
    /\ UNCHANGED <<matches, playerStats>>
\* getAllMatches is answered and statsDoc built from its list
UpdatePlayerStats_GetAllMatches(p, docs) ==
    /\ pc[p] = "getAllMatches"
    /\ statsDoc' = [statsDoc EXCEPT ![p] = BuildStatsDoc(GetAllMatches(matches, docs))]
    /\ Goto(p, "setDoc")
    /\ UNCHANGED <<matches, playerStats, matchId, matchData>>
UpdatePlayerStats_GetAllMatchesFails(p) ==
    /\ pc[p] = "getAllMatches"
    /\ Return(p, Rejected(StoreErrorMessage))
    /\ UNCHANGED <<matches, playerStats>>
\* (mutant) the match count is added to that of the snapshot there is
UpdatePlayerStats_SetDocIncremental(p) ==
    /\ pc[p] = "setDoc"
    /\ playerStats' =
          IF USER_ID \in DOMAIN playerStats
          THEN (USER_ID :> [statsDoc[p] EXCEPT
                              !.totalMatches = @ + playerStats[USER_ID].totalMatches])
                 @@ playerStats
          ELSE (USER_ID :> statsDoc[p]) @@ playerStats
    /\ CASE op[p] = "addMatch" -> Return(p, ResolvedId(matchId[p]))
         [] op[p] \in {"updateMatch", "deleteMatch", "updatePlayerStats"} ->
                Return(p, Resolved)
         [] OTHER -> /\ Goto(p, "getDocAgain")
                     /\ statsDoc' = [statsDoc EXCEPT ![p] = NoData]
                     /\ UNCHANGED <<matchId, matchData>>
    /\ UNCHANGED matches
\* (mutant) with no match left the snapshot is left as it is
UpdatePlayerStats_SetDocSkipsEmpty(p) ==
    /\ pc[p] = "setDoc"
    /\ playerStats' = IF statsDoc[p].totalMatches = 0 THEN playerStats
                      ELSE (USER_ID :> statsDoc[p]) @@ playerStats
    /\ CASE op[p] = "addMatch" -> Return(p, ResolvedId(matchId[p]))
         [] op[p] \in {"updateMatch", "deleteMatch", "updatePlayerStats"} ->
                Return(p, Resolved)
         [] OTHER -> /\ Goto(p, "getDocAgain")
                     /\ statsDoc' = [statsDoc EXCEPT ![p] = NoData]
                     /\ UNCHANGED <<matchId, matchData>>
    /\ UNCHANGED matches
\* setDoc(doc(db, STATS_COLLECTION, USER_ID), statsDoc), then back in the caller
UpdatePlayerStats_SetDoc(p) ==
    /\ pc[p] = "setDoc"
    /\ playerStats' = (USER_ID :> statsDoc[p]) @@ playerStats
    /\ CASE op[p] = "addMatch" -> Return(p, ResolvedId(matchId[p]))
         [] op[p] \in {"updateMatch", "deleteMatch", "updatePlayerStats"} ->
                Return(p, Resolved)
         [] OTHER -> /\ Goto(p, "getDocAgain")
                     /\ statsDoc' = [statsDoc EXCEPT ![p] = NoData]
                     /\ UNCHANGED <<matchId, matchData>>
    /\ UNCHANGED matches
\* (mutant) the catch block of updatePlayerStats logs the error and returns
UpdatePlayerStats_SetDocFailsSwallowed(p) ==
    /\ pc[p] = "setDoc"
    /\ Return(p, IF op[p] = "addMatch" THEN ResolvedId(matchId[p]) ELSE Resolved)
    /\ UNCHANGED <<matches, playerStats>>
UpdatePlayerStats_SetDocFails(p) ==
    /\ pc[p] = "setDoc"
    /\ Return(p, Rejected(StoreErrorMessage))
    /\ UNCHANGED <<matches, playerStats>>

\* --------------------------------------------------------------- updateMatch
\* (mutant) updateMatch goes on without looking at what getMatch returned
UpdateMatch_GetMatchUnchecked(p, id, data) ==
    /\ CanCall(p)
    /\ IF id \notin DOMAIN matches
       THEN Proceed(p, "updateMatch", id, data, "updateDoc")
       ELSE IF KeyChanged(data, MatchOf(matches, id))
       THEN Proceed(p, "updateMatch", id, data, "checkDuplicate")
       ELSE Proceed(p, "updateMatch", id, data, "updateDoc")
    /\ UNCHANGED <<matches, playerStats>>
\* updateMatch is called and its getMatch is answered
UpdateMatch_GetMatch(p, id, data) ==
    /\ CanCall(p)
    /\ IF id \notin DOMAIN matches
       THEN Settle(p, "updateMatch", id, Rejected(NotFoundMessage))
       ELSE IF KeyChanged(data, MatchOf(matches, id))
       THEN Proceed(p, "updateMatch", id, data, "checkDuplicate")
       ELSE Proceed(p, "updateMatch", id, data, "updateDoc")
    /\ UNCHANGED <<matches, playerStats>>
UpdateMatch_GetMatchFails(p, id, data) ==
    /\ CanCall(p)
    /\ Settle(p, "updateMatch", id, Rejected(StoreErrorMessage))
    /\ UNCHANGED <<matches, playerStats>>
\* the query of checkDuplicate(matchDate, opponent, matchId) is answered
UpdateMatch_CheckDuplicate(p, docs) ==
    /\ pc[p] = "checkDuplicate"
    /\ IF CheckDuplicateTry(matches, docs, matchData[p].matchDate,
                            matchData[p].opponent, matchId[p])
       THEN Return(p, Rejected(DuplicateMessage(matchData[p].opponent)))
       ELSE Goto(p, "updateDoc") /\ UNCHANGED <<matchId, matchData, statsDoc>>
    /\ UNCHANGED <<matches, playerStats>>
UpdateMatch_CheckDuplicateFails(p) ==
    /\ pc[p] = "checkDuplicate"
    /\ IF CheckDuplicateCatch
       THEN Return(p, Rejected(DuplicateMessage(matchData[p].opponent)))
       ELSE Goto(p, "updateDoc") /\ UNCHANGED <<matchId, matchData, statsDoc>>
    /\ UNCHANGED <<matches, playerStats>>
\* updateDoc(docRef, updateData) on a document that exists
UpdateMatch_UpdateDoc(p) ==
    /\ pc[p] = "updateDoc"
    /\ matchId[p] \in DOMAIN matches
    /\ matches' = [matches EXCEPT
                     ![matchId[p]] = MergeDoc(@, UpdateData(matchData[p]))]
    /\ matchData' = [matchData EXCEPT ![p] = NoData]
    /\ Goto(p, "getAllMatches")
    /\ UNCHANGED <<playerStats, matchId, statsDoc>>
\* updateDoc is rejected: the store failed, or the document is gone
UpdateMatch_UpdateDocFails(p) ==
    /\ pc[p] = "updateDoc"
    /\ Return(p, Rejected(StoreErrorMessage))
    /\ UNCHANGED <<matches, playerStats>>

\* --------------------------------------------------------------- deleteMatch
\* (mutant) deleteMatch resolves without recomputing the statistics
DeleteMatch_DeleteDocNoRecompute(p, id) ==
    /\ CanCall(p)
    /\ matches' = [i \in DOMAIN matches \ {id} |-> matches[i]]
    /\ Settle(p, "deleteMatch", id, Resolved)
    /\ UNCHANGED playerStats
\* (mutant) deleteMatch recomputes the statistics and deletes nothing
DeleteMatch_DeleteDocKeepsRecord(p, id) ==
    /\ CanCall(p)
    /\ Proceed(p, "deleteMatch", id, NoData, "getAllMatches")
    /\ UNCHANGED <<matches, playerStats>>
\* deleteMatch is called and its deleteDoc served; deleting a document that
\* does not exist succeeds in Firestore
DeleteMatch_DeleteDoc(p, id) ==
    /\ CanCall(p)
    /\ matches' = [i \in DOMAIN matches \ {id} |-> matches[i]]
    /\ Proceed(p, "deleteMatch", id, NoData, "getAllMatches")
    /\ UNCHANGED playerStats
DeleteMatch_DeleteDocFails(p, id) ==
    /\ CanCall(p)
    /\ Settle(p, "deleteMatch", id, Rejected(StoreErrorMessage))
    /\ UNCHANGED <<matches, playerStats>>

\* ------------------------------------------------------------ getPlayerStats
\* (mutant) getPlayerStats recomputes the snapshot at every call
GetPlayerStats_GetDocRecomputes(p) ==
    /\ CanCall(p)
    /\ Proceed(p, "getPlayerStats", NoId, NoData, "getAllMatches")
    /\ UNCHANGED <<matches, playerStats>>
\* (mutant) getPlayerStats answers a missing snapshot with default figures and
\* persists nothing
GetPlayerStats_GetDocDefault(p) ==
    /\ CanCall(p)
    /\ Settle(p, "getPlayerStats", NoId,
              ResolvedStats(IF USER_ID \in DOMAIN playerStats
                            THEN playerStats[USER_ID] ELSE BuildStatsDoc(<< >>)))
    /\ UNCHANGED <<matches, playerStats>>
\* getPlayerStats is called and its getDoc answered
GetPlayerStats_GetDoc(p) ==
    /\ CanCall(p)
    /\ IF USER_ID \in DOMAIN playerStats
       THEN Settle(p, "getPlayerStats", NoId,
                   ResolvedStats(playerStats[USER_ID]))
       ELSE Proceed(p, "getPlayerStats", NoId, NoData, "getAllMatches")
    /\ UNCHANGED <<matches, playerStats>>
GetPlayerStats_GetDocFails(p) ==
    /\ CanCall(p)
    /\ Settle(p, "getPlayerStats", NoId, Rejected(StoreErrorMessage))
    /\ UNCHANGED <<matches, playerStats>>
\* the second getDoc, after updatePlayerStats created the snapshot
GetPlayerStats_GetDocAgain(p) ==
    /\ pc[p] = "getDocAgain"
    /\ USER_ID \in DOMAIN playerStats
    /\ Return(p, ResolvedStats(playerStats[USER_ID]))
    /\ UNCHANGED <<matches, playerStats>>
GetPlayerStats_GetDocAgainFails(p) ==
    /\ pc[p] = "getDocAgain"
    /\ Return(p, Rejected(StoreErrorMessage))
    /\ UNCHANGED <<matches, playerStats>>

\* -------------------------------------------------------------------- reads
\* getAllMatches is called and its getDocs answered
GetAllMatches_GetDocs(p, docs) ==
    /\ CanCall(p)
    /\ Settle(p, "getAllMatches", NoId, ResolvedList(GetAllMatches(matches, docs)))
    /\ UNCHANGED <<matches, playerStats>>
GetAllMatches_GetDocsFails(p) ==
    /\ CanCall(p)
    /\ Settle(p, "getAllMatches", NoId, Rejected(StoreErrorMessage))
    /\ UNCHANGED <<matches, playerStats>>
\* getMatch is called and its getDoc answered
GetMatch_GetDoc(p, id) ==
    /\ CanCall(p)
    /\ Settle(p, "getMatch", id,
              ResolvedMatch(IF id \in DOMAIN matches THEN MatchOf(matches, id)
                            ELSE JsNull))
    /\ UNCHANGED <<matches, playerStats>>
GetMatch_GetDocFails(p, id) ==
    /\ CanCall(p)
    /\ Settle(p, "getMatch", id, Rejected(StoreErrorMessage))
    /\ UNCHANGED <<matches, playerStats>>
\* getRecentMatches(limit) is called and the getDocs of its getAllMatches
\* answered
GetRecentMatches_GetDocs(p, limit, docs) ==
    /\ CanCall(p)
    /\ Settle(p, "getRecentMatches", NoId,
              ResolvedList(Slice(GetAllMatches(matches, docs), limit)))
    /\ UNCHANGED <<matches, playerStats>>
GetRecentMatches_GetDocsFails(p, limit) ==
    /\ CanCall(p)
    /\ Settle(p, "getRecentMatches", NoId, Rejected(StoreErrorMessage))
    /\ UNCHANGED <<matches, playerStats>>

\* --------------------------------------------------------------- validation
\* The forms hand over strings.  A number field is kept as the Number its
\* string converts to, Blank for the empty string: whole numbers for the five
\* counts, tenths of an over for oversBowled (so that neither isNaN nor, for
\* the counts, Number.isInteger can fail).  matchDate is the date picked, or
\* NoDate for the empty string.
Blank == Absent
NoDate == [day |-> 0, tick |-> 0]
\* new Date(): the day the form is submitted on
Today == 2
\* sanitized.opponent when formData.opponent is the empty string
Undefined == "undefined"
\* String.prototype.trim on the opponents in use
Trim(str) ==
    CASE str = " India " -> "India"
      [] str = "  " -> ""
      [] OTHER -> str
NoError == <<>>
\* ValidationRules[fieldName].validate(value, formData)
ValidateField(fieldName, value, formData) ==
    CASE fieldName = "matchDate" ->
           IF value = NoDate THEN <<"Match date is required">>
           ELSE IF NewDate(value) > Today * DayLength + (DayLength - 1)
           THEN <<"Match date cannot be in the future">>
           ELSE NoError
      [] fieldName = "opponent" ->
           IF value = "" \/ Len(Trim(value)) = 0 THEN <<"Opponent name is required">>
           ELSE IF Len(Trim(value)) < 2
           THEN <<"Opponent name must be at least 2 characters">>
           ELSE IF Len(Trim(value)) > 50
           THEN <<"Opponent name must be less than 50 characters">>
           ELSE NoError
      [] fieldName = "runsScored" ->
           IF value = Blank THEN NoError
           ELSE IF value < 0 THEN <<"Runs cannot be negative">>
           ELSE IF value > 500 THEN <<"Runs seems unrealistic (max 500)">>
           ELSE IF formData.ballsFaced # Blank /\ value > formData.ballsFaced * 6
           THEN <<"Runs cannot exceed 6 times balls faced">>
           ELSE NoError
      [] fieldName = "ballsFaced" ->
           IF value = Blank THEN NoError
           ELSE IF value < 0 THEN <<"Balls faced cannot be negative">>
           ELSE IF value > 500 THEN <<"Balls faced seems unrealistic (max 500)">>
           ELSE IF formData.runsScored # Blank
                   /\ value < (formData.runsScored + 5) \div 6
           THEN <<"Balls faced seems too low for runs scored">>
           ELSE NoError
      [] fieldName = "wicketsTaken" ->
           IF value = Blank THEN NoError
           ELSE IF value < 0 THEN <<"Wickets cannot be negative">>
           ELSE IF value > 10 THEN <<"Wickets cannot exceed 10">>
           ELSE NoError
      [] fieldName = "oversBowled" ->
           IF value = Blank THEN NoError
           ELSE IF value < 0 THEN <<"Overs cannot be negative">>
           ELSE IF value > 500 THEN <<"Overs seems unrealistic (max 50)">>
           ELSE IF value % 10 > 5
           THEN <<"Invalid overs format (decimal part should be 0-5, e.g., 4.5)">>
           ELSE NoError
      [] fieldName = "runsConceded" ->
           IF value = Blank THEN NoError
           ELSE IF value < 0 THEN <<"Runs conceded cannot be negative">>
           ELSE IF value > 500 THEN <<"Runs conceded seems unrealistic (max 500)">>
           ELSE NoError
      [] fieldName = "catches" ->
           IF value = Blank THEN NoError
           ELSE IF value < 0 THEN <<"Catches cannot be negative">>
           ELSE IF value > 10 THEN <<"Catches seems unrealistic (max 10)">>
           ELSE NoError
      [] OTHER -> NoError
\* validateForm: the fields in error, each with its message
ValidateForm(formData) ==
    LET inError == { f \in DOMAIN formData :
                       ValidateField(f, formData[f], formData) # NoError }
    IN  [f \in inError |-> ValidateField(f, formData[f], formData)]
\* Object.keys(errors).length > 0
HasErrors(errors) == DOMAIN errors # {}
\* sanitizeFormData
SanitizeFormData(formData) ==
    LET number(f) == IF formData[f] # Blank THEN formData[f] ELSE 0
    IN  [opponent |-> IF formData.opponent # "" THEN Trim(formData.opponent)
                      ELSE Undefined,
         runsScored |-> number("runsScored"), ballsFaced |-> number("ballsFaced"),
         wicketsTaken |-> number("wicketsTaken"), oversBowled |-> number("oversBowled"),
         runsConceded |-> number("runsConceded"), catches |-> number("catches"),
         matchDate |-> formData.matchDate]

\* ------------------------------------------------------------ the handlers
\* ui.showToast(message, 'error') with nothing asked of the service
Toast(message) == [kind |-> "toast", message |-> message]
FixErrorsMessage == <<"Please fix the errors in the form">>
\* the modal of showEditMatchModal is open on the match
Modal(m) == [kind |-> "modal", match |-> m]
ModalClosed == [kind |-> "closed"]
\* (mutant) the submit handler sanitizes and adds without validating
HandleAddMatch_SubmitUnvalidated(p, data, docs) ==
    AddMatch_CheckDuplicate(p, SanitizeFormData(data), docs)
\* the add-match form is submitted with data, up to the first answer of the
\* store to addMatch
HandleAddMatch_Submit(p, data, docs) ==
    IF HasErrors(ValidateForm(data))
    THEN /\ CanCall(p)
         /\ Settle(p, "handleAddMatch", NoId, Toast(FixErrorsMessage))
         /\ UNCHANGED <<matches, playerStats>>
    ELSE AddMatch_CheckDuplicate(p, SanitizeFormData(data), docs)
\* window.editMatch(matchId): getMatch is answered and the modal shown
EditMatch_GetMatch(p, id) ==
    /\ CanCall(p)
    /\ Settle(p, "editMatch", id,
              IF id \in DOMAIN matches THEN Modal(MatchOf(matches, id))
              ELSE Toast(NotFoundMessage))
    /\ UNCHANGED <<matches, playerStats>>
ModalOpen(p) == pc[p] = "done" /\ op[p] = "editMatch" /\ result[p].kind = "modal"
\* (mutant) the save callback sanitizes and updates without validating
EditMatch_SaveUnvalidated(p, updatedData) ==
    /\ ModalOpen(p)
    /\ UpdateMatch_GetMatch(p, matchId[p], SanitizeFormData(updatedData))
\* Save Changes is clicked: the modal closes and the callback runs with the
\* data of its form, up to the first answer of the store to updateMatch
EditMatch_Save(p, updatedData) ==
    /\ ModalOpen(p)
    /\ IF HasErrors(ValidateForm(updatedData))
       THEN /\ Settle(p, "editMatch", matchId[p], Toast(FixErrorsMessage))
            /\ UNCHANGED <<matches, playerStats>>
       ELSE UpdateMatch_GetMatch(p, matchId[p], SanitizeFormData(updatedData))
\* Cancel, the close button or the overlay is clicked
EditMatch_Cancel(p) ==
    /\ ModalOpen(p)
    /\ Settle(p, "editMatch", matchId[p], ModalClosed)
    /\ UNCHANGED <<matches, playerStats>>

\* ------------------------------------------------------------ specifications
\* the store serves the request a call is waiting on
Served(p) ==
    \/ \E data \in MatchDataInputs : \E docs \in Orders(UserDocIds(matches)) :
            AddMatch_CheckDuplicate(p, data, docs)
    \/ \E id \in Ids : AddMatch_AddDoc(p, id)
    \/ \E docs \in Orders(UserDocIds(matches)) : UpdatePlayerStats_GetAllMatches(p, docs)
    \/ UpdatePlayerStats_SetDoc(p)
    \/ \E id \in CallIds : \E data \in MatchDataInputs : UpdateMatch_GetMatch(p, id, data)
    \/ \E docs \in Orders(UserDocIds(matches)) : UpdateMatch_CheckDuplicate(p, docs)
    \/ UpdateMatch_UpdateDoc(p)
    \/ \E id \in CallIds : DeleteMatch_DeleteDoc(p, id)
    \/ GetPlayerStats_GetDoc(p)
    \/ GetPlayerStats_GetDocAgain(p)
\* the store rejects the request a call is waiting on
Failed(p) ==
    \/ \E data \in MatchDataInputs : AddMatch_CheckDuplicateFails(p, data)
    \/ AddMatch_AddDocFails(p)
    \/ UpdatePlayerStats_GetAllMatchesFails(p)
    \/ UpdatePlayerStats_SetDocFails(p)
    \/ \E id \in CallIds : \E data \in MatchDataInputs :
            UpdateMatch_GetMatchFails(p, id, data)
    \/ UpdateMatch_CheckDuplicateFails(p)
    \/ UpdateMatch_UpdateDocFails(p)
    \/ \E id \in CallIds : DeleteMatch_DeleteDocFails(p, id)
    \/ GetPlayerStats_GetDocFails(p)
    \/ GetPlayerStats_GetDocAgainFails(p)

\* one caller, one call at a time, over a store that may reject any request
Next == \E p \in SeqCallers : Served(p) \/ Failed(p)
Spec == Init /\ [][Next]_vars

\* one caller, one call at a time, over a store that rejects nothing
NextNoFailure == \E p \in SeqCallers : Served(p)
SpecNoFailure == Init /\ [][NextNoFailure]_vars

\* the collections updatePlayerStats is run over on its own: up to MaxRecords
\* documents, each of any of the inputs
RecordSets ==
    UNION { { [i \in 1 .. n |-> StoredRecord(i, RecordInputs[k[i]])] :
                k \in [1 .. n -> 1 .. Len(RecordInputs)] } :
            n \in 0 .. MaxRecords }
\* a snapshot no record set gives
ArbitrarySnapshot ==
    [userId |-> USER_ID, totalMatches |-> 7, totalRuns |-> 1, totalBallsFaced |-> 2,
     totalWickets |-> 3, totalOversBowled |-> NumberOfTenths(1), totalRunsConceded |-> 4,
     totalCatches |-> 5, battingAverage |-> 6, strikeRate |-> 7, bowlingAverage |-> 8,
     economyRate |-> 9]
\* the snapshot before the run: none, that of no match, or any at all
PreviousSnapshots ==
    { << >>, (USER_ID :> BuildStatsDoc(<< >>)), (USER_ID :> ArbitrarySnapshot) }
InitAggregator ==
    /\ matches \in RecordSets
    /\ playerStats \in PreviousSnapshots
    /\ pc = [p \in Procs |-> "idle"]
    /\ op = [p \in Procs |-> "none"]
    /\ matchId = [p \in Procs |-> NoId]
    /\ matchData = [p \in Procs |-> NoData]
    /\ statsDoc = [p \in Procs |-> NoData]
    /\ result = [p \in Procs |-> NoResult]
    /\ now = 0
    /\ matchModel = NewMatch
\* updatePlayerStats called on its own, again and again, over a store that
\* rejects nothing
NextAggregator ==
    \E p \in SeqCallers :
        \/ \E docs \in Orders(UserDocIds(matches)) : UpdatePlayerStats_Call(p, docs)
        \/ UpdatePlayerStats_SetDoc(p)
SpecAggregator == InitAggregator /\ [][NextAggregator]_vars

\* time passes at the store
Tick ==
    /\ now < MaxClock
    /\ now' = now + 1
    /\ UNCHANGED <<matches, playerStats, pc, op, matchId, matchData, statsDoc,
                   result, matchModel>>
\* a caller's object that carries timestamps of its own, as the match objects
\* that getMatch and getAllMatches return do
CallerStamps == [createdAt |-> MaxClock + 1, updatedAt |-> MaxClock + 2]
ClockInputs ==
    { Submission(1, 0, "India", BattingFigures),
      Submission(1, 0, "India", BowlingFigures),
      CallerStamps @@ Submission(2, 0, "India", BattingFigures),
      CallerStamps @@ Submission(1, 0, "Pakistan", BowlingFigures) }
\* addMatch and updateMatch, one call at a time, while time passes, over a
\* store that rejects nothing
NextClock ==
    \/ Tick
    \/ \E p \in SeqCallers :
          \/ \E data \in ClockInputs : \E docs \in Orders(UserDocIds(matches)) :
                  AddMatch_CheckDuplicate(p, data, docs)
          \/ \E id \in Ids : AddMatch_AddDoc(p, id)
          \/ \E docs \in Orders(UserDocIds(matches)) :
                  UpdatePlayerStats_GetAllMatches(p, docs)
          \/ UpdatePlayerStats_SetDoc(p)
          \/ \E id \in CallIds : \E data \in ClockInputs :
                  UpdateMatch_GetMatch(p, id, data)
          \/ \E docs \in Orders(UserDocIds(matches)) : UpdateMatch_CheckDuplicate(p, docs)
          \/ UpdateMatch_UpdateDoc(p)
SpecClock == Init /\ [][NextClock]_vars

\* the store after the three matches of the worked scenario were added, in
\* any order and on any days: the three records and their snapshot
ScenarioFigures == <<BattingFigures, WicketFigures, AllRoundFigures>>
ScenarioIds == 1 .. Len(ScenarioFigures)
InitScenario ==
    /\ matches \in
          { [id \in ScenarioIds |->
                StoredRecord(id, [day |-> day[id], figures |-> ScenarioFigures[k[id]]])] :
            k \in { f \in [ScenarioIds -> ScenarioIds] :
                      \A i, j \in ScenarioIds : i # j => f[i] # f[j] },
            day \in [ScenarioIds -> 1 .. 2] }
    /\ \E docs \in Orders(UserDocIds(matches)) :
          playerStats = (USER_ID :> BuildStatsDoc(GetAllMatches(matches, docs)))
    /\ pc = [p \in Procs |-> "idle"]
    /\ op = [p \in Procs |-> "none"]
    /\ matchId = [p \in Procs |-> NoId]
    /\ matchData = [p \in Procs |-> NoData]
    /\ statsDoc = [p \in Procs |-> NoData]
    /\ result = [p \in Procs |-> NoResult]
    /\ now = 0
    /\ matchModel = NewMatch
\* deleteMatch called again and again, over a store that rejects nothing
NextScenario ==
    \E p \in SeqCallers :
        \/ \E id \in ScenarioIds \cup {Len(ScenarioFigures) + 1} :
                DeleteMatch_DeleteDoc(p, id)
        \/ \E docs \in Orders(UserDocIds(matches)) : UpdatePlayerStats_GetAllMatches(p, docs)
        \/ UpdatePlayerStats_SetDoc(p)
SpecScenario == InitScenario /\ [][NextScenario]_vars

\* a record of another player in the same collection
OtherPlayersRecord(id, r) == [StoredRecord(id, r) EXCEPT !.userId = "other-player"]
\* the records the reads are run over: one of each of three days
ReadInputs ==
    << [day |-> 1, figures |-> BattingFigures], [day |-> 2, figures |-> WicketFigures],
       [day |-> 3, figures |-> AllRoundFigures] >>
\* the player's records in the collections the reads are run over: up to
\* MaxRecords documents, each of any of the days
PlayersRecordSets ==
    UNION { { [i \in 1 .. n |-> StoredRecord(i, ReadInputs[k[i]])] :
                k \in [1 .. n -> 1 .. Len(ReadInputs)] } :
            n \in 0 .. MaxRecords }
\* those collections, with or without one more record, which is another
\* player's
ReadSets ==
    PlayersRecordSets \cup
    { (Cardinality(DOMAIN coll) + 1 :> OtherPlayersRecord(Cardinality(DOMAIN coll) + 1, r))
        @@ coll : coll \in PlayersRecordSets, r \in {ReadInputs[1], ReadInputs[3]} }
\* the limits getRecentMatches is called with
LimitInputs == {0, 1, 2, DefaultLimit}
InitReads ==
    /\ matches \in ReadSets
    /\ playerStats \in PreviousSnapshots
    /\ pc = [p \in Procs |-> "idle"]
    /\ op = [p \in Procs |-> "none"]
    /\ matchId = [p \in Procs |-> NoId]
    /\ matchData = [p \in Procs |-> NoData]
    /\ statsDoc = [p \in Procs |-> NoData]
    /\ result = [p \in Procs |-> NoResult]
    /\ now = 0
    /\ matchModel = NewMatch
\* the four reads, one call at a time, over a store that may reject the
\* request of a read
NextReads ==
    \E p \in SeqCallers :
        \/ \E docs \in Orders(UserDocIds(matches)) : GetAllMatches_GetDocs(p, docs)
        \/ GetAllMatches_GetDocsFails(p)
        \/ \E id \in 1 .. (MaxRecords + 2) : GetMatch_GetDoc(p, id)
        \/ \E id \in 1 .. (MaxRecords + 2) : GetMatch_GetDocFails(p, id)
        \/ \E limit \in LimitInputs : \E docs \in Orders(UserDocIds(matches)) :
                GetRecentMatches_GetDocs(p, limit, docs)
        \/ \E limit \in LimitInputs : GetRecentMatches_GetDocsFails(p, limit)
        \/ GetPlayerStats_GetDoc(p)
        \/ \E docs \in Orders(UserDocIds(matches)) : UpdatePlayerStats_GetAllMatches(p, docs)
        \/ UpdatePlayerStats_SetDoc(p)
        \/ GetPlayerStats_GetDocAgain(p)
SpecReads == InitReads /\ [][NextReads]_vars

\* what the two forms hand over: the date, the opponent and the six figures
FormData(day, opponent, runs, balls, wickets, overs, conceded, catches) ==
    [matchDate |-> IF day = 0 THEN NoDate ELSE [day |-> day, tick |-> 0],
     opponent |-> opponent, runsScored |-> runs, ballsFaced |-> balls,
     wicketsTaken |-> wickets, oversBowled |-> overs,
     runsConceded |-> conceded, catches |-> catches]
LongName == "Marylebone Cricket Club Invitational Eleven of Lord's"
\* a batting, a bowling and an all-round performance
ValidForms ==
    { FormData(1, " India ", 50, 40, Blank, Blank, Blank, 1),
      FormData(1, "india", Blank, Blank, 3, 40, 20, Blank),
      FormData(2, "Pakistan", 30, 20, 1, 23, 15, 2) }
\* one form to the rule broken
InvalidForms ==
    { FormData(0, "India", 50, 40, Blank, Blank, Blank, 1),
      FormData(Today + 1, "India", 50, 40, Blank, Blank, Blank, 1),
      FormData(1, "", 50, 40, Blank, Blank, Blank, 1),
      FormData(1, "  ", 50, 40, Blank, Blank, Blank, 1),
      FormData(1, "I", 50, 40, Blank, Blank, Blank, 1),
      FormData(1, LongName, 50, 40, Blank, Blank, Blank, 1),
      FormData(1, "India", 50, 8, Blank, Blank, Blank, 1),
      FormData(1, "India", 501, Blank, Blank, Blank, Blank, 1),
      FormData(1, "India", Blank, 501, Blank, Blank, Blank, 1),
      FormData(1, "India", -5, 40, Blank, Blank, Blank, 1),
      FormData(1, "India", Blank, Blank, 11, 40, 20, Blank),
      FormData(1, "India", Blank, Blank, 3, 47, 20, Blank),
      FormData(1, "India", Blank, Blank, 3, 510, 20, Blank),
      FormData(1, "India", Blank, Blank, 3, 40, -5, Blank),
      FormData(1, "India", Blank, Blank, 3, 40, 501, Blank),
      FormData(1, "India", 50, 40, Blank, Blank, Blank, 11) }
FormInputs == ValidForms \cup InvalidForms
\* the add-match form and the edit modal, one at a time, over a store that
\* rejects nothing
NextForms ==
    \E p \in SeqCallers :
        \/ \E data \in FormInputs : \E docs \in Orders(UserDocIds(matches)) :
                HandleAddMatch_Submit(p, data, docs)
        \/ \E id \in Ids : AddMatch_AddDoc(p, id)
        \/ \E docs \in Orders(UserDocIds(matches)) : UpdatePlayerStats_GetAllMatches(p, docs)
        \/ UpdatePlayerStats_SetDoc(p)
        \/ \E id \in CallIds : EditMatch_GetMatch(p, id)
        \/ \E updatedData \in FormInputs : EditMatch_Save(p, updatedData)
        \/ EditMatch_Cancel(p)
        \/ \E docs \in Orders(UserDocIds(matches)) : UpdateMatch_CheckDuplicate(p, docs)
        \/ UpdateMatch_UpdateDoc(p)
SpecForms == Init /\ [][NextForms]_vars

\* the values the tests give each field, and null
JavaValues ==
    [id |-> {Null, ValueOf("101"), ValueOf("1")},
     matchDate |-> {Null, ValueOf(1), ValueOf(2)},
     opponent |-> {Null, ValueOf("Opponent A"), ValueOf("Opponent B")},
     runsScored |-> {Null, ValueOf(45), ValueOf(100)},
     ballsFaced |-> {Null, ValueOf(30), ValueOf(60)},
     wicketsTaken |-> {Null, ValueOf(1), ValueOf(3)},
     oversBowled |-> {Null, ValueOf(50), ValueOf(40)},
     runsConceded |-> {Null, ValueOf(20), ValueOf(25)},
     catches |-> {Null, ValueOf(0), ValueOf(2)}]
\* the arguments the parameterized constructor is called with
ConstructorInputs ==
    { <<ValueOf("1"), ValueOf(1), ValueOf("Opponent A"), ValueOf(45), ValueOf(30),
        ValueOf(1), ValueOf(50), ValueOf(20), ValueOf(0)>>,
      <<ValueOf("101"), ValueOf(2), ValueOf("Opponent B"), ValueOf(100), Null,
        ValueOf(3), ValueOf(40), ValueOf(25), ValueOf(2)>> }
\* constructor and setter calls in any order
NextMatchModel ==
    \/ Match_New
    \/ \E a \in ConstructorInputs : Match_NewOf(a)
    \/ \E v \in JavaValues.id : Match_SetId(v)
    \/ \E v \in JavaValues.matchDate : Match_SetMatchDate(v)
    \/ \E v \in JavaValues.opponent : Match_SetOpponent(v)
    \/ \E v \in JavaValues.runsScored : Match_SetRunsScored(v)
    \/ \E v \in JavaValues.ballsFaced : Match_SetBallsFaced(v)
    \/ \E v \in JavaValues.wicketsTaken : Match_SetWicketsTaken(v)
    \/ \E v \in JavaValues.oversBowled : Match_SetOversBowled(v)
    \/ \E v \in JavaValues.runsConceded : Match_SetRunsConceded(v)
    \/ \E v \in JavaValues.catches : Match_SetCatches(v)
SpecMatchModel == Init /\ [][NextMatchModel]_vars

\* the matches the two callers add
ConcurrentInputs ==
    { Submission(1, 0, "India", BattingFigures),
      Submission(1, 0, "Pakistan", BowlingFigures) }
\* two calls of addMatch and deleteMatch in flight together, each going on
\* when the store answers its request, over a store that rejects nothing:
\* nothing in the handlers or the service makes a call wait for another
NextConcurrent ==
    \E p \in Procs :
        \/ \E data \in ConcurrentInputs : \E docs \in Orders(UserDocIds(matches)) :
                AddMatch_CheckDuplicate(p, data, docs)
        \/ \E id \in Ids : AddMatch_AddDoc(p, id)
        \/ \E docs \in Orders(UserDocIds(matches)) : UpdatePlayerStats_GetAllMatches(p, docs)
        \/ UpdatePlayerStats_SetDoc(p)
        \/ \E id \in Ids : DeleteMatch_DeleteDoc(p, id)
SpecConcurrent == Init /\ [][NextConcurrent]_vars

\* ================================================================== claims
Mutations == {"addMatch", "updateMatch", "deleteMatch"}
\* no call is between its first request and its settling
NoCallInProgress == \A p \in Procs : pc[p] \in {"idle", "done"}
SnapshotExists == USER_ID \in DOMAIN playerStats
\* the snapshot a recomputation over the collection coll gives, the store
\* returning the documents in the order of their ids
IsAggregateOf(doc, coll) ==
    \A docs \in Orders(UserDocIds(coll)) : doc = BuildStatsDoc(GetAllMatches(coll, docs))
\* caller p's call has resolved (not rejected)
ResolvedOk(p) == pc[p] = "done" /\ result[p].kind = "ok"
\* the step settles a call of p
Settles(p) ==
    /\ pc'[p] = "done"
    /\ \/ pc[p] # "done"
       \/ <<op[p], matchId[p], result[p]>> # <<op'[p], matchId'[p], result'[p]>>

\* C1: over a store that rejects nothing and with one call at a time, whenever
\* no call is in progress and the playerStats snapshot exists, the snapshot is
\* the aggregate of the matches currently stored.
C1_SnapshotIsAggregate ==
    (NoCallInProgress /\ SnapshotExists) => IsAggregateOf(playerStats[USER_ID], matches)
\* a deleteMatch has resolved and left a match and a snapshot behind
C1_Witness ==
    /\ ResolvedOk("c1")
    /\ op["c1"] = "deleteMatch"
    /\ SnapshotExists
    /\ playerStats[USER_ID].totalMatches = 1
    /\ Cardinality(DOMAIN matches) = 1

\* C2: when addMatch, updateMatch or deleteMatch resolves, the snapshot is
\* already persisted and is the aggregate of the matches as the mutation left
\* them; and a getPlayerStats called right after such a call resolves with
\* that aggregate.
C2_StatsPersistedBeforeResolve ==
    [][\A p \in Procs :
        /\ (Settles(p) /\ op'[p] \in Mutations /\ result'[p].kind = "ok")
              => (USER_ID \in DOMAIN playerStats'
                    /\ IsAggregateOf(playerStats'[USER_ID], matches'))
        /\ (ResolvedOk(p) /\ op[p] \in Mutations /\ Settles(p)
              /\ op'[p] = "getPlayerStats" /\ result'[p].kind = "ok")
              => IsAggregateOf(result'[p].stats, matches')]_vars
\* an updateMatch has resolved over two stored matches
C2_Witness ==
    /\ ResolvedOk("c1")
    /\ op["c1"] = "updateMatch"
    /\ Cardinality(DOMAIN matches) = 2
    /\ SnapshotExists
    /\ playerStats[USER_ID].totalMatches = 2


\* ---- the collision rule, stated on the record set
\* two opponent names that differ at most in the case of their letters
EqualIgnoringCase(a, b) == a = b \/ {a, b} = {"India", "india"}
\* two times on the same calendar day
SameCalendarDay(t1, t2) ==
    \E d \in 0 .. 3 : {t1, t2} \subseteq (d * DayLength) .. (d * DayLength + DayLength - 1)
\* a stored match other than excludeId's collides with the candidate of data
Collision(coll, data, excludeId) ==
    \E id \in DOMAIN coll \ {excludeId} :
        /\ EqualIgnoringCase(coll[id].opponent, data.opponent)
        /\ SameCalendarDay(coll[id].matchDate, NewDate(data.matchDate))
\* the step is a call of addMatch with data, up to the answer of its duplicate check
AddMatchCalled(p, data) ==
    \/ \E docs \in Orders(UserDocIds(matches)) : AddMatch_CheckDuplicate(p, data, docs)
    \/ AddMatch_CheckDuplicateFails(p, data)
\* the step is the first of a call of p
Calls(p) ==
    /\ CanCall(p)
    /\ <<pc[p], op[p], matchId[p], matchData[p], result[p]>>
          # <<pc'[p], op'[p], matchId'[p], matchData'[p], result'[p]>>
StoresUnchanged == matches' = matches /\ playerStats' = playerStats

\* C3 (as claimed): an addMatch or updateMatch whose candidate collides with a
\* stored match is rejected with the duplicate error naming the candidate's
\* opponent, and it writes nothing.
C3_DuplicateRejectedNothingPersisted ==
    [][\A p \in Procs :
        /\ \A data \in MatchDataInputs :
              (AddMatchCalled(p, data) /\ Collision(matches, data, NoId)
                 /\ pc'[p] = "done")
              => (result'[p] = Rejected(DuplicateMessage(data.opponent))
                    /\ StoresUnchanged)
        /\ (pc[p] = "checkDuplicate" /\ Collision(matches, matchData[p], matchId[p]))
              => (StoresUnchanged
                    /\ (pc'[p] = "done" =>
                          result'[p] = Rejected(DuplicateMessage(matchData[p].opponent))))
        /\ (pc[p] \in {"addDoc", "updateDoc"}
              /\ Collision(matches, matchData[p], matchId[p]))
              => StoresUnchanged]_vars

\* C4 (as claimed): checkDuplicate returns true exactly when a stored match
\* other than excludeId's has the candidate's opponent, ignoring case, on the
\* candidate's calendar day, in whatever order the documents are scanned.  Its
\* callers throw the duplicate error exactly when it returns true.
C4_CheckDuplicateIffCollision ==
    [][\A p \in Procs :
        /\ \A data \in MatchDataInputs :
              AddMatchCalled(p, data)
              => (pc'[p] = "done" <=> Collision(matches, data, NoId))
        /\ pc[p] = "checkDuplicate"
              => (pc'[p] = "done" <=> Collision(matches, matchData[p], matchId[p]))]_vars

IsDuplicateError(r) ==
    r.kind = "error" /\ \E o \in {"India", "india", "Pakistan"} : r.message = DuplicateMessage(o)

\* C5: an updateMatch that keeps the stored opponent and matchDate does not run
\* the duplicate check, and no updateMatch is rejected as a duplicate unless a
\* stored match other than the updated one collides with its candidate.
C5_NoSelfCollision ==
    [][\A p \in Procs :
        /\ pc'[p] = "checkDuplicate"
              => KeyChanged(matchData'[p], MatchOf(matches', matchId'[p]))
        /\ (Settles(p) /\ op'[p] = "updateMatch" /\ IsDuplicateError(result'[p]))
              => (pc[p] = "checkDuplicate"
                    /\ Collision(matches, matchData[p], matchId[p]))]_vars
\* an updateMatch with the stored opponent and matchDate is about to write
C5_WitnessUnchangedKey ==
    /\ pc["c1"] = "updateDoc"
    /\ matchId["c1"] \in DOMAIN matches
    /\ ~KeyChanged(matchData["c1"], MatchOf(matches, matchId["c1"]))
    /\ matchData["c1"].runsScored # matches[matchId["c1"]].runsScored

\* C6 (as claimed): for every stored match and every update of it that keeps
\* its opponent and matchDate, checkDuplicate with excludeId set to its id
\* reports no collision, so that skipping the check changes nothing.
C6_SkipEqualsCheck ==
    \A id \in DOMAIN matches : \A data \in MatchDataInputs :
        ~KeyChanged(data, MatchOf(matches, id))
        => \A docs \in Orders(UserDocIds(matches)) :
              ~CheckDuplicateTry(matches, docs, data.matchDate, data.opponent, id)

\* C7: an updateMatch naming an id that is not stored settles at its first
\* request as rejected, with 'Match not found' whenever the store answers that
\* request (the store's own error otherwise), and changes no document.
C7_UpdateNotFound ==
    [][\A p \in Procs :
        (Calls(p) /\ op'[p] = "updateMatch" /\ matchId'[p] \notin DOMAIN matches)
        => /\ pc'[p] = "done"
           /\ result'[p].kind = "error"
           /\ StoresUnchanged
           /\ (\E data \in MatchDataInputs : UpdateMatch_GetMatch(p, matchId'[p], data))
                 => result'[p] = Rejected(NotFoundMessage)]_vars
\* an updateMatch of an id that is not stored was rejected, other matches stored
C7_Witness ==
    /\ pc["c1"] = "done"
    /\ op["c1"] = "updateMatch"
    /\ result["c1"] = Rejected(NotFoundMessage)
    /\ matchId["c1"] \notin DOMAIN matches
    /\ DOMAIN matches # {}
    /\ SnapshotExists

\* C8 (as claimed): a deleteMatch naming an id that is not stored is rejected
\* with a not-found error.
C8_DeleteNotFound ==
    [][\A p \in Procs : \A id \in CallIds :
        (id \notin DOMAIN matches /\ DeleteMatch_DeleteDoc(p, id))
        => (pc'[p] = "done" /\ result'[p] = Rejected(NotFoundMessage))]_vars

\* C9 (as claimed): when the query of the duplicate check of addMatch or
\* updateMatch is rejected, the call is rejected with that error.
C9_CheckFailurePropagates ==
    [][\A p \in Procs :
        /\ \A data \in MatchDataInputs :
              AddMatch_CheckDuplicateFails(p, data)
              => (pc'[p] = "done" /\ result'[p] = Rejected(StoreErrorMessage))
        /\ UpdateMatch_CheckDuplicateFails(p)
              => (pc'[p] = "done" /\ result'[p] = Rejected(StoreErrorMessage))]_vars

\* C10: when the recomputation of a mutation is rejected after its record
\* write, the call is rejected with the store's error, and the write stays: the
\* matches are as the write left them and the snapshot is not touched.
C10_RecomputeFailureSurfaces ==
    [][\A p \in Procs :
        (op[p] \in Mutations
           /\ (UpdatePlayerStats_GetAllMatchesFails(p) \/ UpdatePlayerStats_SetDocFails(p)))
        => /\ pc'[p] = "done"
           /\ result'[p] = Rejected(StoreErrorMessage)
           /\ StoresUnchanged
           /\ op[p] = "addMatch" => matchId[p] \in DOMAIN matches'
           /\ op[p] = "deleteMatch" => matchId[p] \notin DOMAIN matches']_vars
\* an addMatch was rejected after its record was written: the record is there
\* and the snapshot does not count it
C10_Witness ==
    /\ pc["c1"] = "done"
    /\ op["c1"] = "addMatch"
    /\ result["c1"] = Rejected(StoreErrorMessage)
    /\ matchId["c1"] \in DOMAIN matches
    /\ SnapshotExists
    /\ playerStats[USER_ID].totalMatches < Cardinality(DOMAIN matches)

\* C11 (as claimed): a getPlayerStats that follows a mutation in which a step
\* failed does not resolve with a snapshot that disagrees with the aggregate of
\* the matches stored, the record set getAllMatches returns.
C11_NoStaleSnapshotAfterFailure ==
    [][\A p \in Procs :
        (pc[p] = "done" /\ op[p] \in Mutations /\ result[p].kind = "error"
           /\ Settles(p) /\ op'[p] = "getPlayerStats" /\ result'[p].kind = "ok")
        => IsAggregateOf(result'[p].stats, matches')]_vars

\* C12: a getPlayerStats called when no snapshot exists does not resolve at its
\* first request; its updatePlayerStats persists the aggregate of the matches
\* stored; and when it resolves, the snapshot exists and the call resolves with
\* the snapshot as persisted, the aggregate of the matches stored.
C12_LazyInit ==
    [][\A p \in Procs :
        /\ (Calls(p) /\ op'[p] = "getPlayerStats" /\ ~SnapshotExists /\ pc'[p] = "done")
              => result'[p].kind = "error"
        /\ (op[p] = "getPlayerStats" /\ UpdatePlayerStats_SetDoc(p))
              => (USER_ID \in DOMAIN playerStats'
                    /\ IsAggregateOf(playerStats'[USER_ID], matches'))
        /\ (op[p] = "getPlayerStats" /\ pc[p] = "getDocAgain" /\ result'[p].kind = "ok")
              => (USER_ID \in DOMAIN playerStats'
                    /\ result'[p].stats = playerStats'[USER_ID]
                    /\ IsAggregateOf(result'[p].stats, matches'))]_vars
\* a getPlayerStats that found no snapshot has persisted one over a stored
\* match and is about to read it back
C12_Witness ==
    /\ pc["c1"] = "getDocAgain"
    /\ op["c1"] = "getPlayerStats"
    /\ DOMAIN matches # {}
    /\ SnapshotExists
    /\ playerStats[USER_ID].totalMatches = Cardinality(DOMAIN matches)

\* ---- the aggregate, stated on the record set
\* every figure of the snapshot that is a count or a rate is 0
IsZeroSnapshot(doc) ==
    /\ doc.totalMatches = 0 /\ doc.totalRuns = 0 /\ doc.totalBallsFaced = 0
    /\ doc.totalWickets = 0 /\ doc.totalOversBowled = DoubleZero
    /\ doc.totalRunsConceded = 0 /\ doc.totalCatches = 0
    /\ doc.battingAverage = 0 /\ doc.strikeRate = 0
    /\ doc.bowlingAverage = 0 /\ doc.economyRate = 0

\* C13: when updatePlayerStats writes its snapshot while no match is stored,
\* after the last match was deleted too, the snapshot is there afterwards and
\* totalMatches, every total and every derived metric of it is 0.
C13_EmptySetGivesZeroSnapshot ==
    [][\A p \in Procs :
        (UpdatePlayerStats_SetDoc(p) /\ DOMAIN matches = {})
        => (USER_ID \in DOMAIN playerStats' /\ IsZeroSnapshot(playerStats'[USER_ID]))]_vars
\* a deleteMatch of a stored id has resolved and left no match and a snapshot
C13_Witness ==
    /\ ResolvedOk("c1")
    /\ op["c1"] = "deleteMatch"
    /\ matchId["c1"] \in Ids
    /\ DOMAIN matches = {}
    /\ SnapshotExists
    /\ IsZeroSnapshot(playerStats[USER_ID])

\* the sum of a field over the records with the given ids, a record that lacks
\* the field counting 0
RECURSIVE SumOfField(_, _, _)
SumOfField(coll, ids, field) ==
    IF ids = {} THEN 0
    ELSE LET id == CHOOSE x \in ids : TRUE
         IN (IF coll[id][field] = Absent THEN 0 ELSE coll[id][field])
               + SumOfField(coll, ids \ {id}, field)
PlainSum(coll, field) == SumOfField(coll, DOMAIN coll, field)
\* an updatePlayerStats called on its own by p has resolved: the snapshot is
\* the one it wrote
Recomputed(p) == ResolvedOk(p) /\ op[p] = "updatePlayerStats"

\* C14: after a run of updatePlayerStats totalMatches is the number of records
\* and each of totalRuns, totalBallsFaced, totalWickets, totalRunsConceded and
\* totalCatches is the sum of its field over the records, a missing field
\* counting 0; totalOversBowled is the sum of the oversBowled values as they
\* are stored (to the tenth, the digit they are given to), with no conversion
\* of balls to overs, and is the Number 6.8 for two records of 3.4.
C14_TotalsArePlainSums ==
    \A p \in Procs :
        Recomputed(p) =>
            /\ playerStats[USER_ID].totalMatches = Cardinality(DOMAIN matches)
            /\ playerStats[USER_ID].totalRuns = PlainSum(matches, "runsScored")
            /\ playerStats[USER_ID].totalBallsFaced = PlainSum(matches, "ballsFaced")
            /\ playerStats[USER_ID].totalWickets = PlainSum(matches, "wicketsTaken")
            /\ playerStats[USER_ID].totalRunsConceded = PlainSum(matches, "runsConceded")
            /\ playerStats[USER_ID].totalCatches = PlainSum(matches, "catches")
            /\ ToFixed(playerStats[USER_ID].totalOversBowled, 1)
                  = PlainSum(matches, "oversBowled")
            /\ (Cardinality(DOMAIN matches) = 2
                  /\ \A id \in DOMAIN matches : matches[id].oversBowled = 34)
                  => playerStats[USER_ID].totalOversBowled = NumberOfTenths(68)
\* a run over two records of 3.4 overs that lack other fields has resolved
C14_Witness ==
    /\ Recomputed("c1")
    /\ Cardinality(DOMAIN matches) = 2
    /\ \A id \in DOMAIN matches :
          matches[id].oversBowled = 34 /\ matches[id].catches = Absent
    /\ playerStats[USER_ID].totalOversBowled = NumberOfTenths(68)
    /\ playerStats[USER_ID].totalCatches = 0

\* C15: after a run of updatePlayerStats battingAverage is 0 if no record has
\* runsScored > 0, and otherwise a hundredth nearest to totalRuns divided by
\* the number of records with runsScored > 0.
C15_BattingAverage ==
    \A p \in Procs :
        Recomputed(p) =>
            LET n == Cardinality({id \in DOMAIN matches : matches[id].runsScored > 0})
                runs == PlainSum(matches, "runsScored")
                h == playerStats[USER_ID].battingAverage
            IN IF n = 0 THEN h = 0
               ELSE /\ 2 * (h * n - 100 * runs) <= n
                    /\ 2 * (100 * runs - h * n) <= n
\* a run over a record with runs and a record without has resolved
C15_Witness ==
    /\ Recomputed("c1")
    /\ Cardinality(DOMAIN matches) = 2
    /\ \E i, j \in DOMAIN matches :
          matches[i].runsScored = 50 /\ matches[j].runsScored = 0
    /\ playerStats[USER_ID].battingAverage = 5000

\* C16: after a run of updatePlayerStats over any record set, strikeRate is 0
\* if totalBallsFaced is 0, bowlingAverage is 0 if totalWickets is 0 and
\* economyRate is 0 if totalOversBowled is 0; each of the four derived metrics
\* is a number, neither NaN nor Infinity.
C16_ZeroDivisionGuards ==
    \A p \in Procs :
        Recomputed(p) =>
            /\ playerStats[USER_ID].totalBallsFaced = 0
                  => playerStats[USER_ID].strikeRate = 0
            /\ playerStats[USER_ID].totalWickets = 0
                  => playerStats[USER_ID].bowlingAverage = 0
            /\ playerStats[USER_ID].totalOversBowled = DoubleZero
                  => playerStats[USER_ID].economyRate = 0
            /\ PlainSum(matches, "runsScored") = 0
                  => playerStats[USER_ID].battingAverage = 0
            /\ \A x \in { playerStats[USER_ID].battingAverage,
                           playerStats[USER_ID].strikeRate,
                           playerStats[USER_ID].bowlingAverage,
                           playerStats[USER_ID].economyRate } : x \in Nat
\* a run over records with runs but with no wicket and no over has resolved
C16_Witness ==
    /\ Recomputed("c1")
    /\ DOMAIN matches # {}
    /\ playerStats[USER_ID].totalWickets = 0
    /\ playerStats[USER_ID].totalOversBowled = DoubleZero
    /\ playerStats[USER_ID].totalRunsConceded = 0
    /\ playerStats[USER_ID].bowlingAverage = 0
    /\ playerStats[USER_ID].economyRate = 0
    /\ playerStats[USER_ID].strikeRate > 0

\* the quotient num / den to two decimals, a half rounded away from zero, in
\* hundredths, for num >= 0 and den > 0
RoundHalfAway2(num, den) == (200 * num + den) \div (2 * den)
\* that of a guarded quotient
RoundedQuotient(num, den) == IF den = 0 THEN 0 ELSE RoundHalfAway2(num, den)

\* C17 (as claimed): after a run of updatePlayerStats each of battingAverage,
\* strikeRate, bowlingAverage and economyRate is the exact quotient of its
\* totals rounded to two decimals, a half rounded away from zero.
C17_ExactQuotientRounded ==
    \A p \in Procs :
        Recomputed(p) =>
            /\ playerStats[USER_ID].battingAverage =
                  RoundedQuotient(PlainSum(matches, "runsScored"),
                      Cardinality({id \in DOMAIN matches : matches[id].runsScored > 0}))
            /\ playerStats[USER_ID].strikeRate =
                  RoundedQuotient(100 * PlainSum(matches, "runsScored"),
                                  PlainSum(matches, "ballsFaced"))
            /\ playerStats[USER_ID].bowlingAverage =
                  RoundedQuotient(PlainSum(matches, "runsConceded"),
                                  PlainSum(matches, "wicketsTaken"))
            /\ playerStats[USER_ID].economyRate =
                  RoundedQuotient(10 * PlainSum(matches, "runsConceded"),
                                  PlainSum(matches, "oversBowled"))

\* the ways of giving the documents' ids to each other's records
Bijections(S) == { f \in [S -> S] : \A a, b \in S : a # b => f[a] # f[b] }
\* the same records stored under each other's ids, which the store then
\* returns in another order
Rearranged(coll, f) == [id \in DOMAIN coll |-> coll[f[id]]]

\* C18 (as claimed): the statsDoc a run of updatePlayerStats builds is the one
\* it builds from the same records in any other order.
C18_OrderIndependent ==
    \A p \in Procs :
        (pc[p] = "setDoc" /\ op[p] = "updatePlayerStats")
        => \A f \in Bijections(DOMAIN matches) :
              IsAggregateOf(statsDoc[p], Rearranged(matches, f))

FiguresOf(doc) ==
    [runsScored |-> doc.runsScored, ballsFaced |-> doc.ballsFaced,
     wicketsTaken |-> doc.wicketsTaken, oversBowled |-> doc.oversBowled,
     runsConceded |-> doc.runsConceded, catches |-> doc.catches]
\* the store holds the three records of the scenario and no other
ScenarioStored ==
    /\ Cardinality(DOMAIN matches) = 3
    /\ { FiguresOf(matches[id]) : id \in DOMAIN matches }
          = {BattingFigures, WicketFigures, AllRoundFigures}

\* C20: over the three records (50, 40, 0, 0, 0, 1), (0, 0, 3, 4.0, 20, 0) and
\* (30, 20, 1, 2.3, 15, 2), stored in any order and on any days, a run of
\* updatePlayerStats leaves the snapshot totalMatches 3, totalRuns 80,
\* totalBallsFaced 60, totalWickets 4, totalOversBowled 6.3, totalRunsConceded
\* 35, totalCatches 3, battingAverage 40.00, strikeRate 133.33, bowlingAverage
\* 8.75, economyRate 5.56.
C20_Scenario ==
    \A p \in Procs :
        (Recomputed(p) /\ ScenarioStored)
        => playerStats[USER_ID] =
             [userId |-> USER_ID, totalMatches |-> 3, totalRuns |-> 80,
              totalBallsFaced |-> 60, totalWickets |-> 4,
              totalOversBowled |-> NumberOfTenths(63), totalRunsConceded |-> 35,
              totalCatches |-> 3, battingAverage |-> 4000, strikeRate |-> 13333,
              bowlingAverage |-> 875, economyRate |-> 556]
\* a run over the three records of the scenario has resolved
C20_Witness ==
    /\ Recomputed("c1")
    /\ ScenarioStored
    /\ playerStats[USER_ID].totalMatches = 3
    /\ playerStats[USER_ID].economyRate = 556

\* C21: deleteMatch removes the record and recomputes the snapshot before it
\* resolves: once it has resolved the record of its id is gone, and when it
\* took (0, 0, 3, 4.0, 20, 0) out of the three records of the scenario the
\* snapshot has totalMatches 2, totalWickets 1, totalOversBowled 2.3,
\* totalRunsConceded 15, bowlingAverage 15.00 and economyRate 6.52.
C21_DeleteRecomputes ==
    \A p \in SeqCallers :
        (ResolvedOk(p) /\ op[p] = "deleteMatch")
        => /\ matchId[p] \notin DOMAIN matches
           /\ ( /\ Cardinality(DOMAIN matches) = 2
                /\ { FiguresOf(matches[id]) : id \in DOMAIN matches }
                      = {BattingFigures, AllRoundFigures} )
              => /\ SnapshotExists
                 /\ playerStats[USER_ID].totalMatches = 2
                 /\ playerStats[USER_ID].totalWickets = 1
                 /\ playerStats[USER_ID].totalOversBowled = NumberOfTenths(23)
                 /\ playerStats[USER_ID].totalRunsConceded = 15
                 /\ playerStats[USER_ID].bowlingAverage = 1500
                 /\ playerStats[USER_ID].economyRate = 652
\* the deleteMatch of the record (0, 0, 3, 4.0, 20, 0) has resolved and left
\* the two other records of the scenario
C21_Witness ==
    /\ ResolvedOk("c1")
    /\ op["c1"] = "deleteMatch"
    /\ Cardinality(DOMAIN matches) = 2
    /\ { FiguresOf(matches[id]) : id \in DOMAIN matches }
          = {BattingFigures, AllRoundFigures}
    /\ playerStats[USER_ID].totalMatches = 2

\* what a matchData field that may be absent is stored as
GivenOrZero(x) == IF x = Absent THEN 0 ELSE x

\* C22: the updateDoc of an updateMatch keeps the ids of the collection and,
\* of the record updated, the userId and the createdAt; it replaces matchDate,
\* opponent and the six figures by those supplied, a figure left out becoming 0
\* whatever it was; and it sets updatedAt to the reading of the store's clock.
C22_UpdateReplacesFields ==
    [][ \A p \in SeqCallers :
          UpdateMatch_UpdateDoc(p)
          => LET id == matchId[p]
                 data == matchData[p]
                 old == matches[id]
                 new == matches'[id]
             IN  /\ DOMAIN matches' = DOMAIN matches
                 /\ DOMAIN new = DOMAIN old
                 /\ new.userId = old.userId
                 /\ new.createdAt = old.createdAt
                 /\ new.matchDate = data.matchDate.day * DayLength + data.matchDate.tick
                 /\ new.opponent = data.opponent
                 /\ new.runsScored = GivenOrZero(data.runsScored)
                 /\ new.ballsFaced = GivenOrZero(data.ballsFaced)
                 /\ new.wicketsTaken = GivenOrZero(data.wicketsTaken)
                 /\ new.oversBowled = GivenOrZero(data.oversBowled)
                 /\ new.runsConceded = GivenOrZero(data.runsConceded)
                 /\ new.catches = GivenOrZero(data.catches)
                 /\ new.updatedAt = now
                 /\ new.updatedAt >= old.updatedAt ]_vars
\* an updateMatch that left runs, balls and catches out has resolved on a
\* record written with them at an earlier time
C22_Witness ==
    /\ ResolvedOk("c1")
    /\ op["c1"] = "updateMatch"
    /\ matchId["c1"] \in DOMAIN matches
    /\ matches[matchId["c1"]].updatedAt > matches[matchId["c1"]].createdAt
    /\ matches[matchId["c1"]].runsScored = 0
    /\ matches[matchId["c1"]].wicketsTaken = 3

\* C23: a record's createdAt never changes and its updatedAt never decreases;
\* its updatedAt is never earlier than its createdAt; and both are readings of
\* the store's clock, none later than the clock stands, whatever timestamps
\* the caller's data carries.
C23_Timestamps ==
    /\ [](\A id \in DOMAIN matches :
             /\ matches[id].createdAt <= matches[id].updatedAt
             /\ matches[id].updatedAt <= now)
    /\ [][ /\ \A id \in DOMAIN matches \cap DOMAIN matches' :
                 /\ matches'[id].createdAt = matches[id].createdAt
                 /\ matches'[id].updatedAt >= matches[id].updatedAt
           /\ \A id \in DOMAIN matches' \ DOMAIN matches :
                 /\ matches'[id].createdAt = now
                 /\ matches'[id].updatedAt = now ]_vars
\* two records created at different times, the older one updated since the
\* younger was created, from data that carry timestamps of their own
C23_Witness ==
    /\ Cardinality(DOMAIN matches) = 2
    /\ \E a, b \in DOMAIN matches :
          /\ matches[a].createdAt < matches[b].createdAt
          /\ matches[a].updatedAt > matches[b].createdAt
          /\ matches[a].opponent = "Pakistan"
    /\ ResolvedOk("c1")
    /\ op["c1"] = "updateMatch"

ReadOps == {"getAllMatches", "getMatch", "getRecentMatches"}
\* the record of the subject stored under the id of the returned match m,
\* field for field
IsStoredRecord(m) ==
    /\ m.id \in UserDocIds(matches)
    /\ DOMAIN m = DOMAIN matches[m.id] \cup {"id"}
    /\ \A f \in DOMAIN matches[m.id] : m[f] = matches[m.id][f]
\* no entry of the list is preceded by one of an earlier matchDate, and no
\* record appears twice
IsNewestFirst(list) ==
    \A i, j \in 1 .. Len(list) :
        i < j => list[i].matchDate >= list[j].matchDate /\ list[i].id # list[j].id

\* C24: getAllMatches resolves with the records stored for the subject, each
\* once and as stored, none preceded by a record of an earlier matchDate; and
\* getRecentMatches(n) resolves with the first n entries of such a list, or
\* with all of them when they are fewer than n.
C24_ListsNewestFirst ==
    /\ [](\A p \in SeqCallers :
             (ResolvedOk(p) /\ op[p] = "getAllMatches")
             => /\ \A i \in 1 .. Len(result[p].list) : IsStoredRecord(result[p].list[i])
                /\ { result[p].list[i].id : i \in 1 .. Len(result[p].list) }
                      = UserDocIds(matches)
                /\ IsNewestFirst(result[p].list))
    /\ [][ \A p \in SeqCallers : \A limit \in LimitInputs :
             ( /\ op'[p] = "getRecentMatches"
               /\ \E docs \in Orders(UserDocIds(matches)) :
                     GetRecentMatches_GetDocs(p, limit, docs) )
             => LET list == result'[p].list
                    listed == { list[i].id : i \in 1 .. Len(list) }
                    count == Cardinality(UserDocIds(matches))
                IN  /\ Len(list) = IF count < limit THEN count ELSE limit
                    /\ \A i \in 1 .. Len(list) : IsStoredRecord(list[i])
                    /\ IsNewestFirst(list)
                    /\ \A id \in UserDocIds(matches) \ listed :
                          \A i \in 1 .. Len(list) :
                              matches[id].matchDate <= list[i].matchDate ]_vars
\* getRecentMatches(2) has resolved with the two latest of the player's three
\* records, the latest stored under the highest id, while another player's
\* record of a later day is stored too
C24_Witness ==
    /\ ResolvedOk("c1")
    /\ op["c1"] = "getRecentMatches"
    /\ Len(result["c1"].list) = 2
    /\ Cardinality(UserDocIds(matches)) = 3
    /\ result["c1"].list[1].id = 3
    /\ result["c1"].list[1].matchDate > result["c1"].list[2].matchDate
    /\ \E id \in UserDocIds(matches) :
          matches[id].matchDate < result["c1"].list[2].matchDate
    /\ \E id \in DOMAIN matches :
          /\ matches[id].userId # USER_ID
          /\ matches[id].matchDate > result["c1"].list[2].matchDate

\* C25: a step of getAllMatches, getMatch or getRecentMatches leaves both
\* collections as they are; and getPlayerStats, called when the snapshot
\* exists, resolves at once with that snapshot and leaves both collections as
\* they are.
C25_ReadsChangeNothing ==
    [][ \A p \in SeqCallers :
          /\ (Calls(p) /\ op'[p] \in ReadOps)
             => StoresUnchanged /\ pc'[p] = "done"
          /\ (Calls(p) /\ op'[p] = "getPlayerStats" /\ SnapshotExists)
             => /\ StoresUnchanged
                /\ pc'[p] = "done"
                /\ result'[p].kind = "ok" => result'[p].stats = playerStats[USER_ID] ]_vars
\* getPlayerStats has resolved with a snapshot that is not the aggregate of
\* the records stored, and the snapshot is still that
C25_Witness ==
    /\ ResolvedOk("c1")
    /\ op["c1"] = "getPlayerStats"
    /\ result["c1"].stats = ArbitrarySnapshot
    /\ playerStats[USER_ID] = ArbitrarySnapshot
    /\ matches # << >>

\* the step hands data over to addMatch or to updateMatch
SubmitsOrSaves(p, data) ==
    \/ \E docs \in Orders(UserDocIds(matches)) : HandleAddMatch_Submit(p, data, docs)
    \/ EditMatch_Save(p, data)

\* C26: a step that starts addMatch or updateMatch is the submission of a
\* form, or the saving of an edit, whose data validateForm found no error in;
\* and the submission or saving of data it found an error in settles at once
\* with the toast, starting no call of the service and leaving both
\* collections as they are.
C26_ValidatedBeforeCore ==
    [][ \A p \in SeqCallers :
          /\ (Calls(p) /\ op'[p] \in {"addMatch", "updateMatch"})
             => \E data \in FormInputs :
                   /\ DOMAIN ValidateForm(data) = {}
                   /\ SubmitsOrSaves(p, data)
          /\ \A data \in FormInputs :
                (DOMAIN ValidateForm(data) # {} /\ SubmitsOrSaves(p, data))
                => /\ StoresUnchanged
                   /\ pc'[p] = "done"
                   /\ op'[p] \notin {"addMatch", "updateMatch"}
                   /\ result'[p] = Toast(FixErrorsMessage) ]_vars
\* the saving of an edit was turned down with the toast, on a record that a
\* valid submission had added
C26_Witness ==
    /\ pc["c1"] = "done"
    /\ op["c1"] = "editMatch"
    /\ result["c1"] = Toast(FixErrorsMessage)
    /\ matchId["c1"] \in DOMAIN matches
    /\ matches[matchId["c1"]].opponent = "India"

\* the getter of a field
Get(f, m) ==
    CASE f = "id" -> GetId(m)
      [] f = "matchDate" -> GetMatchDate(m)
      [] f = "opponent" -> GetOpponent(m)
      [] f = "runsScored" -> GetRunsScored(m)
      [] f = "ballsFaced" -> GetBallsFaced(m)
      [] f = "wicketsTaken" -> GetWicketsTaken(m)
      [] f = "oversBowled" -> GetOversBowled(m)
      [] f = "runsConceded" -> GetRunsConceded(m)
      [] f = "catches" -> GetCatches(m)
\* the step is a call of the setter of a field
Set(f, v) ==
    CASE f = "id" -> Match_SetId(v)
      [] f = "matchDate" -> Match_SetMatchDate(v)
      [] f = "opponent" -> Match_SetOpponent(v)
      [] f = "runsScored" -> Match_SetRunsScored(v)
      [] f = "ballsFaced" -> Match_SetBallsFaced(v)
      [] f = "wicketsTaken" -> Match_SetWicketsTaken(v)
      [] f = "oversBowled" -> Match_SetOversBowled(v)
      [] f = "runsConceded" -> Match_SetRunsConceded(v)
      [] f = "catches" -> Match_SetCatches(v)
ArgumentFor == [id |-> 1, matchDate |-> 2, opponent |-> 3, runsScored |-> 4,
                ballsFaced |-> 5, wicketsTaken |-> 6, oversBowled |-> 7,
                runsConceded |-> 8, catches |-> 9]

\* C27: after a call of a setter the getter of its field returns the value
\* given and every other getter returns what it returned before; after the
\* parameterized constructor every getter returns the argument given for its
\* field, and after the default constructor every getter returns null.
C27_GettersReturnLastGiven ==
    [][ /\ \A f \in MatchFields : \A v \in JavaValues[f] :
             Set(f, v)
             => /\ Get(f, matchModel') = v
                /\ \A g \in MatchFields \ {f} :
                      Get(g, matchModel') = Get(g, matchModel)
        /\ \A a \in ConstructorInputs :
             Match_NewOf(a)
             => \A f \in MatchFields : Get(f, matchModel') = a[ArgumentFor[f]]
        /\ Match_New => \A f \in MatchFields : Get(f, matchModel') = Null ]_vars
\* the object of the parameterized constructor after setRunsScored(100),
\* setBallsFaced(60) and setCatches(null)
C27_Witness ==
    /\ GetId(matchModel) = ValueOf("1")
    /\ GetOpponent(matchModel) = ValueOf("Opponent A")
    /\ GetRunsScored(matchModel) = ValueOf(100)
    /\ GetBallsFaced(matchModel) = ValueOf(60)
    /\ GetOversBowled(matchModel) = ValueOf(50)
    /\ GetCatches(matchModel) = Null

\* C28 (as claimed): the collection never holds two distinct records whose
\* opponents are equal ignoring case and whose matchDates fall on the same
\* calendar day.
C28_NoTwoRecordsCollide ==
    \A a, b \in DOMAIN matches :
        a # b => ~ ( /\ EqualIgnoringCase(matches[a].opponent, matches[b].opponent)
                     /\ SameCalendarDay(matches[a].matchDate, matches[b].matchDate) )

\* C29 (as claimed): when the mutations of both callers have resolved, the
\* snapshot is the aggregate of the records stored, however their requests
\* interleaved.
C29_SnapshotAfterInterleaving ==
    (\A p \in Procs : ResolvedOk(p) /\ op[p] \in Mutations)
    => /\ SnapshotExists
       /\ IsAggregateOf(playerStats[USER_ID], matches)

\* every record of the collection but that of id is as it was
OthersUnchanged(id) ==
    \A other \in (DOMAIN matches \cup DOMAIN matches') \ {id} :
        /\ other \in DOMAIN matches \cap DOMAIN matches'
        /\ matches'[other] = matches[other]

\* C30: a step that changes the collection is the write of one call: that of
\* an addMatch, which adds one record under an id no record had and changes no
\* other; that of an updateMatch, which changes the record of the id given and
\* no other; or that of a deleteMatch, which removes the record of the id
\* given and no other.  And an addMatch that resolves returns the id it added
\* its record under.
C30_OnlyTheTarget ==
    [][ /\ matches' # matches
           => \E p \in SeqCallers :
                \/ /\ op[p] = "addMatch" /\ pc[p] = "addDoc"
                   /\ matchId'[p] \notin DOMAIN matches
                   /\ DOMAIN matches' = DOMAIN matches \cup {matchId'[p]}
                   /\ OthersUnchanged(matchId'[p])
                \/ /\ op[p] = "updateMatch" /\ pc[p] = "updateDoc"
                   /\ DOMAIN matches' = DOMAIN matches
                   /\ OthersUnchanged(matchId[p])
                \/ /\ op'[p] = "deleteMatch" /\ Calls(p)
                   /\ DOMAIN matches' = DOMAIN matches \ {matchId'[p]}
                   /\ OthersUnchanged(matchId'[p])
        /\ \A p \in SeqCallers :
             (Settles(p) /\ op'[p] = "addMatch" /\ result'[p].kind = "ok")
             => /\ result'[p].id = matchId[p]
                /\ result'[p].id \in DOMAIN matches' ]_vars
\* an updateMatch has resolved on one of two records, the other being as it
\* was added
C30_Witness ==
    /\ ResolvedOk("c1")
    /\ op["c1"] = "updateMatch"
    /\ Cardinality(DOMAIN matches) = 2
    /\ matchId["c1"] \in DOMAIN matches
    /\ matches[matchId["c1"]].wicketsTaken = 3
    /\ \E other \in DOMAIN matches \ {matchId["c1"]} :
          matches[other].runsScored = 50

====
